---- MODULE Spec2Model ----
(***************************************************************************)
(* Model of the Express backend of PA-Gerenciador-de-Arquivos              *)
(* (gerenciador/express/server.js): accounts and JWT tokens, posts and     *)
(* trainings, the sharedAccess (Grant) table, the categories, the two      *)
(* access-check middlewares and the routes guarded by them, the role       *)
(* routes, the category routes and the seed script mockCategoria.js.       *)
(*                                                                         *)
(* Spec serves the resource routes one request at a time. SpecRoles,       *)
(* SpecCategories and SpecShared do so for the role routes, the category   *)
(* routes and a database holding a post and a training; SpecShareRace and  *)
(* SpecCategoryRace take a handler one await at a time, the locals of the  *)
(* requests under way being held in inflight.                              *)
(*                                                                         *)
(* JavaScript values that arrive in a request are encoded as strings:      *)
(*   "b:true" / "b:false"  the booleans true / false                       *)
(*   "s:true" / "s:false"  the strings 'true' / 'false'                    *)
(*   "undefined"           field absent from the body                      *)
(* Route parameters (:id, :userId) are strings; asNumber converts them.    *)
(* A category name is the sequence of its characters.                      *)
(* S3 objects and trainingLinks rows are not part of the modelled state.   *)
(***************************************************************************)
EXTENDS Integers, FiniteSets, Sequences, TLC

\* ---- bounds of the model ----
MaxUsers == 2        \* profile rows ever created (autoincrement id)
MaxResources == 1    \* posts and training rows ever created, together
MaxShares == 1       \* sharedAccess rows ever created
MaxCategories == 3   \* category rows ever created, the seeded one included
MaxInflight == 2     \* requests taken step by step (between two awaits)

\* ---- encodings ----
NaN == -1            \* Number('abc')
Null == 0            \* SQL NULL / JS null for ids (autoincrement ids start at 1)
NoRow == {}          \* findUnique / findFirst returning null: rows are held in sets

VARIABLES profile, nextProfileId, tokens, posts, nextPostId, training,
          nextTrainingId, sharedAccess, nextShareId, category, nextCategoryId,
          inflight, res

vars == <<profile, nextProfileId, tokens, posts, nextPostId, training,
          nextTrainingId, sharedAccess, nextShareId, category, nextCategoryId,
          inflight, res>>

store == <<profile, nextProfileId, tokens, posts, nextPostId, training,
           nextTrainingId, sharedAccess, nextShareId, category, nextCategoryId,
           inflight>>

\* ---- request inputs ----
Digits == <<"1", "2", "3", "4", "5">>

IdParams(max) == {Digits[i] : i \in 1..(max + 1)} \cup {"abc"}

Emails == {"admin@exemplo.com"} \cup {"user" \o Digits[i] \o "@exemplo.com" : i \in 1..(MaxUsers - 1)}

Passwords == {"senha_secreta"}

Methods == {"GET", "POST", "PUT", "PATCH", "DELETE"}

FlagInputs == {"b:true", "b:false", "undefined"}

CategoryInputs == {"undefined", "abc", "1", "2"}

IsPublicInputs == {"b:true", "b:false", "s:true", "s:false", "undefined"}

\* const toBoolean = (value) => value === true || value === 'true';
toBoolean(value) == value = "b:true" \/ value = "s:true"

\* const asNumber = (value) => Number(value);
asNumber(value) ==
  IF \E i \in 1..Len(Digits) : Digits[i] = value
    THEN CHOOSE i \in 1..Len(Digits) : Digits[i] = value
    ELSE NaN

\* Boolean(isPublic) of JavaScript on the encoded values: every non-empty
\* string is truthy.
Boolean(value) == value \in {"b:true", "s:true", "s:false"}

\* a || b in place of a ?? b: a false that was sent falls through as well
Coalesce_Or(value, fallback) == value = "b:true" \/ fallback

\* a ?? b on a flag of the request body: an absent flag falls through to b.
Coalesce(value, fallback) ==
  IF value = "undefined" THEN fallback ELSE value = "b:true"

\* the name created by mockCategoria.js
SeedName == <<"C", "a", "t", "e", "g", "o", "r", "i", "a", " ",
              "E", "x", "e", "m", "p", "l", "o">>

\* one character in lower case (the letters the names of the model use)
LowerChar(c) ==
  CASE c = "C" -> "c" [] c = "E" -> "e" [] c = "T" -> "t" [] c = "I" -> "i" [] OTHER -> c

\* the comparison key of { equals: name, mode: 'insensitive' }
toLowerCase(name) == [i \in 1..Len(name) |-> LowerChar(name[i])]

\* name.trim()
RECURSIVE trim(_)
trim(name) ==
  IF name = <<>> THEN name
  ELSE IF Head(name) = " " THEN trim(Tail(name))
  ELSE IF name[Len(name)] = " " THEN trim(SubSeq(name, 1, Len(name) - 1))
  ELSE name

\* names sent to POST /api/categories; <<>> is an empty or absent name
NameInputs == {<<>>, <<" ", " ">>, SeedName, <<" ">> \o toLowerCase(SeedName) \o <<" ">>,
               <<"T", "I">>, <<"t", "i", " ">>}

\* ---- the datastore (Prisma) ----
PostExists(id) == id \in DOMAIN posts

TrainingExists(id) == id \in DOMAIN training

CategoryExists(id) == id \in DOMAIN category

\* prisma.profile.findUnique({ where: { email } })
ProfileByEmail(email) == {id \in DOMAIN profile : profile[id].email = email}

\* post.sharedWith filtered by { userId }
PostSharedWith(postId, userId) ==
  {s \in sharedAccess : s.postId = postId /\ s.userId = userId}

\* training.sharedWith filtered by { userId }
TrainingSharedWith(trainingId, userId) ==
  {s \in sharedAccess : s.trainingId = trainingId /\ s.userId = userId}

\* the lookup with userId left out of the where clause
PostExistingShare_AnyUser(postId, userId) ==
  {s \in sharedAccess : s.postId = postId}

\* prisma.sharedAccess.findFirst({ where: { postId, userId } })
PostExistingShare(postId, userId) ==
  {s \in sharedAccess : s.postId = postId /\ s.userId = userId}

\* prisma.sharedAccess.findFirst({ where: { trainingId, userId } })
TrainingExistingShare(trainingId, userId) ==
  {s \in sharedAccess : s.trainingId = trainingId /\ s.userId = userId}

\* no uniqueness kept on (resource, user): every insert is accepted
PostGrantUnique_NotKept(postId, userId) == TRUE

\* the uniqueness of the sharedAccess rows of a (post, user) pair, which the
\* datastore keeps: an insert for a pair that has a row is rejected
PostGrantUnique(postId, userId) ==
  ~\E s \in sharedAccess : s.postId = postId /\ s.userId = userId

\* prisma.category.findFirst({ where: { name: { equals: name, mode: 'insensitive' } } })
CategoryByNameInsensitive(name) ==
  {id \in DOMAIN category : toLowerCase(category[id].name) = toLowerCase(name)}

\* prisma.category.findFirst({ where: { name } })
CategoryByName(name) == {id \in DOMAIN category : category[id].name = name}

\* uniqueness of the exact name only
CategoryNameUnique_CaseSensitive(name) ==
  ~\E id \in DOMAIN category : category[id].name = name

\* the uniqueness of category names, ignoring case, which the datastore
\* keeps: an insert of a name that is taken is rejected
CategoryNameUnique(name) ==
  ~\E id \in DOMAIN category : toLowerCase(category[id].name) = toLowerCase(name)

\* the posts looked at, the trainings not
CategoryInUse_PostsOnly(id) == \E p \in DOMAIN posts : posts[p].categoryId = id

\* prisma.posts.findFirst({ where: { categoryId } }) || prisma.training.findFirst(...)
CategoryInUse(id) ==
  \/ \E p \in DOMAIN posts : posts[p].categoryId = id
  \/ \E t \in DOMAIN training : training[t].categoryId = id

\* the rows of the post left in place
deleteManyByPost_Skipped(postId) == sharedAccess

\* the table after prisma.sharedAccess.deleteMany({ where: { postId } })
deleteManyByPost(postId) == {s \in sharedAccess : s.postId # postId}

\* the table after prisma.sharedAccess.deleteMany({ where: { trainingId } })
deleteManyByTraining(trainingId) == {s \in sharedAccess : s.trainingId # trainingId}

\* rows[0]: the datastore returns rows in primary-key order
First(rows) == CHOOSE r \in rows : \A q \in rows : r.id <= q.id

\* rows created so far in posts and training (ids are autoincrement from 1)
ResourcesCreated == (nextPostId - 1) + (nextTrainingId - 1)

\* ---- authenticateToken ----
NoToken == [id |-> Null, role |-> "NONE"]

Credentials == tokens \cup {NoToken}

authenticateToken(tok) == IF tok \in tokens THEN "next" ELSE "401"

\* ---- isAdmin ----
\* the role never tested
isAdmin_Skipped(tok) == "next"

isAdmin(tok) == IF tok.role # "ADMIN" THEN "403" ELSE "next"

\* ---- checkPostAccess ----
\* the owner test placed after the public test: owners of public posts fall through
PostOwner_PrivateOnly(post, userId) == post.ownerId = userId /\ ~post.isPublic

\* if (post.ownerId === userId)
PostOwner(post, userId) == post.ownerId = userId

\* PATCH let through on public posts as well
PostPublicAllows_AlsoPatch(method) == method \in {"GET", "PATCH"}

\* a public post, for someone who is not its owner: if (req.method === 'GET')
PostPublicAllows(method) == method = "GET"

\* any row lets every method through once canView is set
PostGrantAllows_ViewIsAll(method, access) == access.canView

\* POST counted with PUT and PATCH as an edit
PostGrantAllows_PostIsEdit(method, access) ==
  \/ method = "GET" /\ access.canView
  \/ method \in {"PUT", "PATCH", "POST"} /\ access.canEdit
  \/ method = "DELETE" /\ access.canDelete

\* PUT and PATCH answered by canView instead of canEdit
PostGrantAllows_ViewEdits(method, access) ==
  \/ method \in {"GET", "PUT", "PATCH"} /\ access.canView
  \/ method = "DELETE" /\ access.canDelete

\* DELETE answered by canEdit instead of canDelete
PostGrantAllows_DeleteByEdit(method, access) ==
  \/ method = "GET" /\ access.canView
  \/ method \in {"PUT", "PATCH", "DELETE"} /\ access.canEdit

\* the access type by HTTP method, for the shared-access row of the user
PostGrantAllows(method, access) ==
  \/ method = "GET" /\ access.canView
  \/ method \in {"PUT", "PATCH"} /\ access.canEdit
  \/ method = "DELETE" /\ access.canDelete

\* everything after the admin test: the lookup and the three rules
PostAccessOfUser(method, postId, userId) ==
  IF postId = NaN THEN "500"                 \* findUnique rejects a NaN id: catch
  ELSE IF ~PostExists(postId) THEN "404"
  ELSE IF PostOwner(posts[postId], userId) THEN "next"
  ELSE IF posts[postId].isPublic
    THEN (IF PostPublicAllows(method) THEN "next" ELSE "403")
  ELSE LET sharedWith == PostSharedWith(postId, userId) IN
    IF sharedWith # {} /\ PostGrantAllows(method, First(sharedWith))
      THEN "next"
      ELSE "403"

\* the admin test left out
checkPostAccess_NoAdminOverride(method, postId, userId, userRole) ==
  PostAccessOfUser(method, postId, userId)

checkPostAccess(method, postId, userId, userRole) ==
  IF userRole = "ADMIN" THEN "next" ELSE PostAccessOfUser(method, postId, userId)

\* ---- checkTrainingAccess ----
\* a public training open to every method, not only GET
checkTrainingAccess_PublicAny(method, trainingId, userId, userRole) ==
  IF userRole = "ADMIN" THEN "next"
  ELSE IF trainingId = NaN THEN "500"
  ELSE IF ~TrainingExists(trainingId) THEN "404"
  ELSE IF training[trainingId].ownerId = userId \/ training[trainingId].isPublic THEN "next"
  ELSE LET sharedWith == TrainingSharedWith(trainingId, userId) IN
    IF sharedWith # {} /\ PostGrantAllows(method, First(sharedWith)) THEN "next" ELSE "403"

checkTrainingAccess(method, trainingId, userId, userRole) ==
  IF userRole = "ADMIN" THEN "next"
  ELSE IF trainingId = NaN THEN "500"
  ELSE IF ~TrainingExists(trainingId) THEN "404"
  ELSE IF training[trainingId].ownerId = userId THEN "next"
  ELSE IF training[trainingId].isPublic
    THEN (IF method = "GET" THEN "next" ELSE "403")
  ELSE LET sharedWith == TrainingSharedWith(trainingId, userId) IN
    IF sharedWith # {}
       /\ LET access == First(sharedWith) IN
            \/ method = "GET" /\ access.canView
            \/ method \in {"PUT", "PATCH"} /\ access.canEdit
            \/ method = "DELETE" /\ access.canDelete
      THEN "next"
      ELSE "403"

\* ---- the response of the last request, with what the request saw ----
NoFlags == <<"undefined", "undefined", "undefined">>

\* req.body of a request that is not a signup
NoBody == [email |-> "", role |-> "undefined"]

\* The record kept of a request: route and method, the decoded token
\* (req.userId, req.userRole), the numeric :id, the resource as it was when
\* the request arrived, the middleware outcome and the HTTP status.
Response(route, method, kind, tok, id, check, status) ==
  LET existed == IF kind = "post" THEN PostExists(id)
                 ELSE IF kind = "training" THEN TrainingExists(id) ELSE FALSE
      row == IF kind = "post" THEN posts[id] ELSE training[id]
  IN [route |-> route, method |-> method, kind |-> kind,
      actor |-> tok.id, role |-> tok.role, id |-> id,
      existed |-> existed,
      ownerId |-> IF existed THEN row.ownerId ELSE Null,
      wasPublic |-> IF existed THEN row.isPublic ELSE FALSE,
      grant |-> IF kind = "post" THEN PostSharedWith(id, tok.id)
                ELSE IF kind = "training" THEN TrainingSharedWith(id, tok.id)
                ELSE {},
      check |-> check, status |-> status,
      target |-> Null, flags |-> NoFlags, prev |-> {}, isPublicIn |-> "undefined",
      name |-> <<>>, list |-> {}, query |-> "undefined", body |-> NoBody]

Unauthorized(route, method, kind, id) ==
  Response(route, method, kind, NoToken, Null, "none", 401)

\* status sent by the middleware when it does not call next()
Denied(check) == CASE check = "403" -> 403 [] check = "404" -> 404 [] check = "500" -> 500

Init ==
  \* the state left by mockAdmin.js on an empty database
  /\ profile = (1 :> [email |-> "admin@exemplo.com", password |-> "senha_secreta", role |-> "ADMIN"])
  /\ nextProfileId = 2
  /\ tokens = {}
  /\ posts = <<>>
  /\ nextPostId = 1
  /\ training = <<>>
  /\ nextTrainingId = 1
  /\ sharedAccess = {}
  /\ nextShareId = 1
  \* and by mockCategoria.js
  /\ category = (1 :> [name |-> SeedName])
  /\ nextCategoryId = 2
  /\ inflight = <<>>
  /\ res = Response("none", "GET", "none", NoToken, Null, "none", 0)

\* ---- POST /api/signup ----
\* what a client may put in the role field of the body
RoleInputs == {"undefined", "ADMIN"}

\* the role field of the body honoured when present
SignupRole_FromBody(role) == IF role = "undefined" THEN "USER" ELSE role

\* role: 'USER' in the data of profile.create, whatever req.body holds
SignupRole(role) == "USER"

Signup(email, password) ==
  \E role \in RoleInputs :
  LET sent == [Response("signup", "POST", "none", NoToken, Null, "none", 0)
                 EXCEPT !.body = [email |-> email, role |-> role]] IN
  IF ProfileByEmail(email) # NoRow
    THEN /\ res' = [sent EXCEPT !.status = 400]
         /\ UNCHANGED store
    ELSE /\ nextProfileId <= MaxUsers
         /\ profile' = profile @@ (nextProfileId :> [email |-> email, password |-> password,
                                                      role |-> SignupRole(role)])
         /\ nextProfileId' = nextProfileId + 1
         /\ res' = [sent EXCEPT !.status = 201]
         /\ UNCHANGED <<tokens, posts, nextPostId, training, nextTrainingId, sharedAccess, nextShareId, category, nextCategoryId, inflight>>

\* ---- POST /api/login ----
Login(email, password) ==
  LET found == ProfileByEmail(email) IN
  IF found = NoRow \/ (\E id \in found : password # profile[id].password)
    THEN /\ res' = Response("login", "POST", "none", NoToken, Null, "none", 401)
         /\ UNCHANGED store
    ELSE \E id \in found :
         LET token == [id |-> id, role |-> profile[id].role] IN
         /\ tokens' = tokens \cup {token}
         /\ res' = Response("login", "POST", "none", token, Null, "none", 200)
         /\ UNCHANGED <<profile, nextProfileId, posts, nextPostId, training, nextTrainingId, sharedAccess, nextShareId, category, nextCategoryId, inflight>>

\* ---- GET /api/posts ----
\* any row of the user counts, whatever its canView
PostListedFor_AnyRow(postId, userId) ==
  \/ posts[postId].isPublic
  \/ posts[postId].ownerId = userId
  \/ \E s \in sharedAccess : s.postId = postId /\ s.userId = userId

\* OR: [{ isPublic: true }, { ownerId: userId }, { sharedWith: { some: { userId, canView: true } } }]
PostListedFor(postId, userId) ==
  \/ posts[postId].isPublic
  \/ posts[postId].ownerId = userId
  \/ \E s \in sharedAccess : s.postId = postId /\ s.userId = userId /\ s.canView

\* categoryId: the query parameter, "undefined" when absent
ListPosts(tok, categoryId) ==
  LET parsedCategoryId == asNumber(categoryId)
      sent == [Response("listPosts", "GET", "none", tok, Null, "none", 0) EXCEPT !.query = categoryId]
  IN /\ UNCHANGED store
     /\ res' = IF authenticateToken(tok) # "next"
                 THEN [Unauthorized("listPosts", "GET", "none", Null) EXCEPT !.query = categoryId]
               ELSE IF categoryId # "undefined" /\ parsedCategoryId = NaN   \* findMany throws: catch
                 THEN [sent EXCEPT !.status = 500]
               ELSE [sent EXCEPT !.status = 200,
                                 !.list = {p \in DOMAIN posts :
                                             /\ categoryId # "undefined" => posts[p].categoryId = parsedCategoryId
                                             /\ tok.role # "ADMIN" => PostListedFor(p, tok.id)}]

\* ---- POST /api/posts ----
\* the row owned by the first account, whoever sends the request
NewPost_OwnedBySeed(userId, isPublic, categoryId) ==
  [ownerId |-> 1, isPublic |-> toBoolean(isPublic), categoryId |-> categoryId]

\* data of posts.create: categoryId: parsedCategoryId, ownerId: userId, isPublic
NewPost(userId, isPublic, categoryId) ==
  [ownerId |-> userId, isPublic |-> toBoolean(isPublic), categoryId |-> categoryId]

\* file: whether the multipart body carries a file; categoryId, isPublic: fields.
CreatePost(tok) ==
  IF authenticateToken(tok) # "next"
    THEN res' = Unauthorized("createPost", "POST", "none", Null) /\ UNCHANGED store
  ELSE \E file \in BOOLEAN, categoryId \in CategoryInputs :
    IF ~file \/ categoryId = "undefined" \/ asNumber(categoryId) = NaN
      THEN /\ res' = Response("createPost", "POST", "none", tok, Null, "none", 400)
           /\ UNCHANGED store
    ELSE IF ~CategoryExists(asNumber(categoryId))   \* foreign key categoryId -> category.id: catch
      THEN /\ res' = Response("createPost", "POST", "none", tok, Null, "none", 500)
           /\ UNCHANGED store
    ELSE \E isPublic \in IsPublicInputs :
         /\ ResourcesCreated < MaxResources
         /\ posts' = posts @@ (nextPostId :> NewPost(tok.id, isPublic, asNumber(categoryId)))
         /\ nextPostId' = nextPostId + 1
         /\ res' = [Response("createPost", "POST", "none", tok, nextPostId, "none", 201)
                      EXCEPT !.isPublicIn = isPublic]
         /\ UNCHANGED <<profile, nextProfileId, tokens, training, nextTrainingId, sharedAccess, nextShareId, category, nextCategoryId, inflight>>

\* ---- GET /api/posts/:id/download and GET /api/posts/:id/image ----
GetPostFile(tok, idParam) ==
  LET id == asNumber(idParam)
      check == checkPostAccess("GET", id, tok.id, tok.role)
  IN /\ UNCHANGED store
     /\ res' = IF authenticateToken(tok) # "next" THEN Unauthorized("getPostFile", "GET", "post", id)
               ELSE IF check # "next" THEN Response("getPostFile", "GET", "post", tok, id, check, Denied(check))
               ELSE IF id = NaN THEN Response("getPostFile", "GET", "post", tok, id, check, 500)
               ELSE IF ~PostExists(id) THEN Response("getPostFile", "GET", "post", tok, id, check, 404)
               ELSE Response("getPostFile", "GET", "post", tok, id, check, 200)

\* ---- DELETE /api/posts/:id ----
\* the rows of the post removed by the access check itself, before it answers
DeletePost_CheckClearsRows(tok, idParam) ==
  LET id == asNumber(idParam)
      check == checkPostAccess("DELETE", id, tok.id, tok.role)
  IN IF authenticateToken(tok) # "next"
       THEN res' = Unauthorized("deletePost", "DELETE", "post", id) /\ UNCHANGED store
     ELSE IF check # "next" \/ id = NaN \/ ~PostExists(id)
       THEN /\ res' = Response("deletePost", "DELETE", "post", tok, id, check,
                                IF check # "next" THEN Denied(check) ELSE IF id = NaN THEN 500 ELSE 404)
            /\ sharedAccess' = deleteManyByPost(id)
            /\ UNCHANGED <<profile, nextProfileId, tokens, posts, nextPostId, training, nextTrainingId, nextShareId, category, nextCategoryId, inflight>>
     ELSE /\ sharedAccess' = deleteManyByPost(id)
          /\ posts' = [p \in DOMAIN posts \ {id} |-> posts[p]]
          /\ res' = Response("deletePost", "DELETE", "post", tok, id, check, 200)
          /\ UNCHANGED <<profile, nextProfileId, tokens, nextPostId, training, nextTrainingId, nextShareId, category, nextCategoryId, inflight>>

DeletePost(tok, idParam) ==
  LET id == asNumber(idParam)
      check == checkPostAccess("DELETE", id, tok.id, tok.role)
  IN IF authenticateToken(tok) # "next"
       THEN res' = Unauthorized("deletePost", "DELETE", "post", id) /\ UNCHANGED store
     ELSE IF check # "next"
       THEN /\ res' = Response("deletePost", "DELETE", "post", tok, id, check, Denied(check))
            /\ UNCHANGED store
     ELSE IF id = NaN
       THEN /\ res' = Response("deletePost", "DELETE", "post", tok, id, check, 500)
            /\ UNCHANGED store
     ELSE IF ~PostExists(id)
       THEN /\ res' = Response("deletePost", "DELETE", "post", tok, id, check, 404)
            /\ UNCHANGED store
     ELSE /\ sharedAccess' = deleteManyByPost(id)
          /\ posts' = [p \in DOMAIN posts \ {id} |-> posts[p]]
          /\ res' = Response("deletePost", "DELETE", "post", tok, id, check, 200)
          /\ UNCHANGED <<profile, nextProfileId, tokens, nextPostId, training, nextTrainingId, nextShareId, category, nextCategoryId, inflight>>

\* ---- PATCH /api/posts/:id/visibility ----
PatchPostVisibility(tok, idParam) ==
  LET id == asNumber(idParam)
      check == checkPostAccess("PATCH", id, tok.id, tok.role)
  IN IF authenticateToken(tok) # "next"
       THEN res' = Unauthorized("postVisibility", "PATCH", "post", id) /\ UNCHANGED store
     ELSE IF check # "next"
       THEN /\ res' = Response("postVisibility", "PATCH", "post", tok, id, check, Denied(check))
            /\ UNCHANGED store
     ELSE \E isPublic \in IsPublicInputs :
     IF isPublic = "undefined"
       THEN /\ res' = Response("postVisibility", "PATCH", "post", tok, id, check, 400)
            /\ UNCHANGED store
     ELSE IF id = NaN \/ ~PostExists(id)     \* prisma.posts.update throws: catch
       THEN /\ res' = Response("postVisibility", "PATCH", "post", tok, id, check, 500)
            /\ UNCHANGED store
     ELSE /\ posts' = [posts EXCEPT ![id].isPublic = Boolean(isPublic)]
          /\ res' = [Response("postVisibility", "PATCH", "post", tok, id, check, 200)
                       EXCEPT !.isPublicIn = isPublic]
          /\ UNCHANGED <<profile, nextProfileId, tokens, nextPostId, training, nextTrainingId, sharedAccess, nextShareId, category, nextCategoryId, inflight>>

\* ---- POST /api/posts/:id/share ----
SharePost(tok, idParam) ==
  LET postId == asNumber(idParam)
      check == checkPostAccess("POST", postId, tok.id, tok.role)
  IN IF authenticateToken(tok) # "next"
       THEN res' = Unauthorized("sharePost", "POST", "post", postId) /\ UNCHANGED store
     ELSE IF check # "next"
       THEN /\ res' = Response("sharePost", "POST", "post", tok, postId, check, Denied(check))
            /\ UNCHANGED store
     ELSE \E userEmail \in Emails \cup {"undefined"} :
     LET targetUser == ProfileByEmail(userEmail) IN
     IF userEmail = "undefined"
       THEN /\ res' = Response("sharePost", "POST", "post", tok, postId, check, 400)
            /\ UNCHANGED store
     ELSE IF targetUser = NoRow
       THEN /\ res' = Response("sharePost", "POST", "post", tok, postId, check, 404)
            /\ UNCHANGED store
     ELSE IF postId = NaN                   \* sharedAccess.findFirst throws: catch
       THEN /\ res' = Response("sharePost", "POST", "post", tok, postId, check, 500)
            /\ UNCHANGED store
     ELSE \E userId \in targetUser :
          LET found == PostExistingShare(postId, userId)
              sent == [Response("sharePost", "POST", "post", tok, postId, check, 0)
                         EXCEPT !.target = userId, !.prev = found]
          IN IF found # NoRow
               THEN \E canView \in FlagInputs, canEdit \in FlagInputs, canDelete \in FlagInputs :
                    LET existingShare == First(found) IN
                    /\ sharedAccess' = (sharedAccess \ {existingShare}) \cup
                         {[existingShare EXCEPT
                             !.canView = Coalesce(canView, existingShare.canView),
                             !.canEdit = Coalesce(canEdit, existingShare.canEdit),
                             !.canDelete = Coalesce(canDelete, existingShare.canDelete)]}
                    /\ res' = [sent EXCEPT !.status = 200,
                                           !.flags = <<canView, canEdit, canDelete>>]
                    /\ UNCHANGED <<profile, nextProfileId, tokens, posts, nextPostId, training, nextTrainingId, nextShareId, category, nextCategoryId, inflight>>
             ELSE IF ~PostExists(postId)    \* foreign key postId -> posts.id: catch
               THEN /\ res' = Response("sharePost", "POST", "post", tok, postId, check, 500)
                    /\ UNCHANGED store
             ELSE \E canView \in FlagInputs, canEdit \in FlagInputs, canDelete \in FlagInputs :
                  /\ nextShareId <= MaxShares
                  /\ sharedAccess' = sharedAccess \cup
                       {[id |-> nextShareId, postId |-> postId, trainingId |-> Null,
                         userId |-> userId,
                         canView |-> Coalesce(canView, TRUE),
                         canEdit |-> Coalesce(canEdit, FALSE),
                         canDelete |-> Coalesce(canDelete, FALSE)]}
                  /\ nextShareId' = nextShareId + 1
                  /\ res' = [sent EXCEPT !.status = 201,
                                         !.flags = <<canView, canEdit, canDelete>>]
                  /\ UNCHANGED <<profile, nextProfileId, tokens, posts, nextPostId, training, nextTrainingId, category, nextCategoryId, inflight>>

\* ---- DELETE /api/posts/:id/share/:userId ----
\* nothing removed
deleteManyByPostAndUser_Kept(postId, userId) == sharedAccess

\* sharedAccess.deleteMany({ where: { postId, userId } }): the table afterwards
deleteManyByPostAndUser(postId, userId) ==
  {s \in sharedAccess : ~(s.postId = postId /\ s.userId = userId)}

RemovePostShare(tok, idParam) ==
  LET postId == asNumber(idParam)
      check == checkPostAccess("DELETE", postId, tok.id, tok.role)
  IN IF authenticateToken(tok) # "next"
       THEN res' = Unauthorized("removePostShare", "DELETE", "post", postId) /\ UNCHANGED store
     ELSE IF check # "next"
       THEN /\ res' = Response("removePostShare", "DELETE", "post", tok, postId, check, Denied(check))
            /\ UNCHANGED store
     ELSE \E userIdParam \in IdParams(MaxUsers) :
     LET userId == asNumber(userIdParam) IN
     IF postId = NaN \/ userId = NaN        \* sharedAccess.deleteMany throws: catch
       THEN /\ res' = Response("removePostShare", "DELETE", "post", tok, postId, check, 500)
            /\ UNCHANGED store
     ELSE /\ sharedAccess' = deleteManyByPostAndUser(postId, userId)
          /\ res' = [Response("removePostShare", "DELETE", "post", tok, postId, check, 200)
                       EXCEPT !.target = userId, !.prev = PostSharedWith(postId, userId)]
          /\ UNCHANGED <<profile, nextProfileId, tokens, posts, nextPostId, training, nextTrainingId, nextShareId, category, nextCategoryId, inflight>>

\* ---- POST /api/trainings ----
\* texts: whether title and description are both present.
CreateTraining(tok) ==
  IF authenticateToken(tok) # "next"
    THEN res' = Unauthorized("createTraining", "POST", "none", Null) /\ UNCHANGED store
  ELSE \E file \in BOOLEAN, texts \in BOOLEAN, categoryId \in CategoryInputs :
    IF ~file \/ ~texts \/ categoryId = "undefined"
      THEN /\ res' = Response("createTraining", "POST", "none", tok, Null, "none", 400)
           /\ UNCHANGED store
    ELSE IF asNumber(categoryId) = NaN     \* categoryId: +categoryId is NaN: catch
                \/ ~CategoryExists(asNumber(categoryId))   \* foreign key: catch
      THEN /\ res' = Response("createTraining", "POST", "none", tok, Null, "none", 500)
           /\ UNCHANGED store
    ELSE \E isPublic \in IsPublicInputs :
         /\ ResourcesCreated < MaxResources
         /\ training' = training @@ (nextTrainingId :> [ownerId |-> tok.id, isPublic |-> toBoolean(isPublic),
                                                      categoryId |-> asNumber(categoryId)])
         /\ nextTrainingId' = nextTrainingId + 1
         /\ res' = [Response("createTraining", "POST", "none", tok, nextTrainingId, "none", 201)
                      EXCEPT !.isPublicIn = isPublic]
         /\ UNCHANGED <<profile, nextProfileId, tokens, posts, nextPostId, sharedAccess, nextShareId, category, nextCategoryId, inflight>>

\* ---- GET /api/trainings ----
TrainingListedFor(trainingId, userId) ==
  \/ training[trainingId].isPublic
  \/ training[trainingId].ownerId = userId
  \/ \E s \in sharedAccess : s.trainingId = trainingId /\ s.userId = userId /\ s.canView

ListTrainings(tok, categoryId) ==
  LET parsedCategoryId == asNumber(categoryId)           \* +categoryId
      sent == [Response("listTrainings", "GET", "none", tok, Null, "none", 0) EXCEPT !.query = categoryId]
  IN /\ UNCHANGED store
     /\ res' = IF authenticateToken(tok) # "next"
                 THEN [Unauthorized("listTrainings", "GET", "none", Null) EXCEPT !.query = categoryId]
               ELSE IF categoryId # "undefined" /\ parsedCategoryId = NaN   \* findMany throws: catch
                 THEN [sent EXCEPT !.status = 500]
               ELSE [sent EXCEPT !.status = 200,
                                 !.list = {t \in DOMAIN training :
                                             /\ categoryId # "undefined" => training[t].categoryId = parsedCategoryId
                                             /\ tok.role # "ADMIN" => TrainingListedFor(t, tok.id)}]

\* ---- GET /api/trainings/:id/image and GET /api/trainings/:id/download ----
GetTrainingFile(tok, idParam) ==
  LET id == asNumber(idParam)
      check == checkTrainingAccess("GET", id, tok.id, tok.role)
  IN /\ UNCHANGED store
     /\ res' = IF authenticateToken(tok) # "next" THEN Unauthorized("getTrainingFile", "GET", "training", id)
               ELSE IF check # "next" THEN Response("getTrainingFile", "GET", "training", tok, id, check, Denied(check))
               ELSE IF id = NaN THEN Response("getTrainingFile", "GET", "training", tok, id, check, 500)
               ELSE IF ~TrainingExists(id) THEN Response("getTrainingFile", "GET", "training", tok, id, check, 404)
               ELSE Response("getTrainingFile", "GET", "training", tok, id, check, 200)

\* ---- DELETE /api/trainings/:id ----
DeleteTraining(tok, idParam) ==
  LET id == asNumber(idParam)
      check == checkTrainingAccess("DELETE", id, tok.id, tok.role)
  IN IF authenticateToken(tok) # "next"
       THEN res' = Unauthorized("deleteTraining", "DELETE", "training", id) /\ UNCHANGED store
     ELSE IF check # "next"
       THEN /\ res' = Response("deleteTraining", "DELETE", "training", tok, id, check, Denied(check))
            /\ UNCHANGED store
     ELSE IF id = NaN
       THEN /\ res' = Response("deleteTraining", "DELETE", "training", tok, id, check, 500)
            /\ UNCHANGED store
     ELSE IF ~TrainingExists(id)
       THEN /\ res' = Response("deleteTraining", "DELETE", "training", tok, id, check, 404)
            /\ UNCHANGED store
     ELSE /\ sharedAccess' = deleteManyByTraining(id)
          /\ training' = [p \in DOMAIN training \ {id} |-> training[p]]
          /\ res' = Response("deleteTraining", "DELETE", "training", tok, id, check, 200)
          /\ UNCHANGED <<profile, nextProfileId, tokens, posts, nextPostId, nextTrainingId, nextShareId, category, nextCategoryId, inflight>>

\* ---- PATCH /api/trainings/:id/visibility ----
PatchTrainingVisibility(tok, idParam) ==
  LET id == asNumber(idParam)
      check == checkTrainingAccess("PATCH", id, tok.id, tok.role)
  IN IF authenticateToken(tok) # "next"
       THEN res' = Unauthorized("trainingVisibility", "PATCH", "training", id) /\ UNCHANGED store
     ELSE IF check # "next"
       THEN /\ res' = Response("trainingVisibility", "PATCH", "training", tok, id, check, Denied(check))
            /\ UNCHANGED store
     ELSE \E isPublic \in IsPublicInputs :
     IF isPublic = "undefined"
       THEN /\ res' = Response("trainingVisibility", "PATCH", "training", tok, id, check, 400)
            /\ UNCHANGED store
     ELSE IF id = NaN \/ ~TrainingExists(id)     \* prisma.training.update throws: catch
       THEN /\ res' = Response("trainingVisibility", "PATCH", "training", tok, id, check, 500)
            /\ UNCHANGED store
     ELSE /\ training' = [training EXCEPT ![id].isPublic = Boolean(isPublic)]
          /\ res' = [Response("trainingVisibility", "PATCH", "training", tok, id, check, 200)
                       EXCEPT !.isPublicIn = isPublic]
          /\ UNCHANGED <<profile, nextProfileId, tokens, posts, nextPostId, nextTrainingId, sharedAccess, nextShareId, category, nextCategoryId, inflight>>

\* ---- POST /api/trainings/:id/share ----
ShareTraining(tok, idParam) ==
  LET trainingId == asNumber(idParam)
      check == checkTrainingAccess("POST", trainingId, tok.id, tok.role)
  IN IF authenticateToken(tok) # "next"
       THEN res' = Unauthorized("shareTraining", "POST", "training", trainingId) /\ UNCHANGED store
     ELSE IF check # "next"
       THEN /\ res' = Response("shareTraining", "POST", "training", tok, trainingId, check, Denied(check))
            /\ UNCHANGED store
     ELSE \E userEmail \in Emails \cup {"undefined"} :
     LET targetUser == ProfileByEmail(userEmail) IN
     IF userEmail = "undefined"
       THEN /\ res' = Response("shareTraining", "POST", "training", tok, trainingId, check, 400)
            /\ UNCHANGED store
     ELSE IF targetUser = NoRow
       THEN /\ res' = Response("shareTraining", "POST", "training", tok, trainingId, check, 404)
            /\ UNCHANGED store
     ELSE IF trainingId = NaN                   \* sharedAccess.findFirst throws: catch
       THEN /\ res' = Response("shareTraining", "POST", "training", tok, trainingId, check, 500)
            /\ UNCHANGED store
     ELSE \E userId \in targetUser :
          LET found == TrainingExistingShare(trainingId, userId)
              sent == [Response("shareTraining", "POST", "training", tok, trainingId, check, 0)
                         EXCEPT !.target = userId, !.prev = found]
          IN IF found # NoRow
               THEN \E canView \in FlagInputs, canEdit \in FlagInputs, canDelete \in FlagInputs :
                    LET existingShare == First(found) IN
                    /\ sharedAccess' = (sharedAccess \ {existingShare}) \cup
                         {[existingShare EXCEPT
                             !.canView = Coalesce(canView, existingShare.canView),
                             !.canEdit = Coalesce(canEdit, existingShare.canEdit),
                             !.canDelete = Coalesce(canDelete, existingShare.canDelete)]}
                    /\ res' = [sent EXCEPT !.status = 200,
                                           !.flags = <<canView, canEdit, canDelete>>]
                    /\ UNCHANGED <<profile, nextProfileId, tokens, posts, nextPostId, training, nextTrainingId, nextShareId, category, nextCategoryId, inflight>>
             ELSE IF ~TrainingExists(trainingId)    \* foreign key trainingId -> training.id: catch
               THEN /\ res' = Response("shareTraining", "POST", "training", tok, trainingId, check, 500)
                    /\ UNCHANGED store
             ELSE \E canView \in FlagInputs, canEdit \in FlagInputs, canDelete \in FlagInputs :
                  /\ nextShareId <= MaxShares
                  /\ sharedAccess' = sharedAccess \cup
                       {[id |-> nextShareId, postId |-> Null, trainingId |-> trainingId,
                         userId |-> userId,
                         canView |-> Coalesce(canView, TRUE),
                         canEdit |-> Coalesce(canEdit, FALSE),
                         canDelete |-> Coalesce(canDelete, FALSE)]}
                  /\ nextShareId' = nextShareId + 1
                  /\ res' = [sent EXCEPT !.status = 201,
                                         !.flags = <<canView, canEdit, canDelete>>]
                  /\ UNCHANGED <<profile, nextProfileId, tokens, posts, nextPostId, training, nextTrainingId, category, nextCategoryId, inflight>>

\* ---- DELETE /api/trainings/:id/share/:userId ----
RemoveTrainingShare(tok, idParam) ==
  LET trainingId == asNumber(idParam)
      check == checkTrainingAccess("DELETE", trainingId, tok.id, tok.role)
  IN IF authenticateToken(tok) # "next"
       THEN res' = Unauthorized("removeTrainingShare", "DELETE", "training", trainingId) /\ UNCHANGED store
     ELSE IF check # "next"
       THEN /\ res' = Response("removeTrainingShare", "DELETE", "training", tok, trainingId, check, Denied(check))
            /\ UNCHANGED store
     ELSE \E userIdParam \in IdParams(MaxUsers) :
     LET userId == asNumber(userIdParam) IN
     IF trainingId = NaN \/ userId = NaN        \* sharedAccess.deleteMany throws: catch
       THEN /\ res' = Response("removeTrainingShare", "DELETE", "training", tok, trainingId, check, 500)
            /\ UNCHANGED store
     ELSE /\ sharedAccess' = {s \in sharedAccess : ~(s.trainingId = trainingId /\ s.userId = userId)}
          /\ res' = [Response("removeTrainingShare", "DELETE", "training", tok, trainingId, check, 200)
                       EXCEPT !.target = userId, !.prev = TrainingSharedWith(trainingId, userId)]
          /\ UNCHANGED <<profile, nextProfileId, tokens, posts, nextPostId, training, nextTrainingId, nextShareId, category, nextCategoryId, inflight>>

\* ---- GET /api/categories ----
\* No middleware: tok is whatever the request carries, and nothing reads it.
GetCategories(tok) ==
  /\ res' = [Response("getCategories", "GET", "none", tok, Null, "none", 200)
               EXCEPT !.list = DOMAIN category]
  /\ UNCHANGED store

\* ---- POST /api/categories ----
PostCategories(tok, name) ==
  LET sent == [Response("postCategories", "POST", "none", tok, Null, "none", 0) EXCEPT !.name = name] IN
  IF authenticateToken(tok) # "next"
    THEN res' = [Unauthorized("postCategories", "POST", "none", Null) EXCEPT !.name = name]
         /\ UNCHANGED store
  ELSE IF isAdmin(tok) # "next"
    THEN res' = [sent EXCEPT !.check = "403", !.status = 403] /\ UNCHANGED store
  ELSE IF name = <<>> \/ trim(name) = <<>>
    THEN res' = [sent EXCEPT !.status = 400] /\ UNCHANGED store
  ELSE IF CategoryByNameInsensitive(trim(name)) # NoRow
    THEN res' = [sent EXCEPT !.status = 409] /\ UNCHANGED store
  ELSE /\ nextCategoryId <= MaxCategories
       /\ category' = category @@ (nextCategoryId :> [name |-> trim(name)])
       /\ nextCategoryId' = nextCategoryId + 1
       /\ res' = [sent EXCEPT !.id = nextCategoryId, !.status = 201]
       /\ UNCHANGED <<profile, nextProfileId, tokens, posts, nextPostId, training, nextTrainingId,
                      sharedAccess, nextShareId, inflight>>

\* ---- DELETE /api/categories/:id ----
DeleteCategories(tok, idParam) ==
  LET id == asNumber(idParam)
      sent == Response("deleteCategories", "DELETE", "none", tok, id, "none", 0)
  IN IF authenticateToken(tok) # "next"
       THEN res' = Unauthorized("deleteCategories", "DELETE", "none", id) /\ UNCHANGED store
     ELSE IF isAdmin(tok) # "next"
       THEN res' = [sent EXCEPT !.check = "403", !.status = 403] /\ UNCHANGED store
     ELSE IF id = NaN                       \* posts.findFirst throws: catch
       THEN res' = [sent EXCEPT !.status = 500] /\ UNCHANGED store
     ELSE IF CategoryInUse(id)
       THEN res' = [sent EXCEPT !.status = 400] /\ UNCHANGED store
     ELSE IF ~CategoryExists(id)            \* category.delete throws: catch
       THEN res' = [sent EXCEPT !.status = 500] /\ UNCHANGED store
     ELSE /\ category' = [c \in DOMAIN category \ {id} |-> category[c]]
          /\ res' = [sent EXCEPT !.status = 200]
          /\ UNCHANGED <<profile, nextProfileId, tokens, posts, nextPostId, training, nextTrainingId,
                         sharedAccess, nextShareId, nextCategoryId, inflight>>

\* ---- mockCategoria.js, run again on the database ----
\* The script answers nobody: res keeps what it did (201 created, 200 found,
\* 500 insert rejected and logged).
createCategory ==
  LET sent == [Response("createCategory", "POST", "none", NoToken, Null, "none", 0)
                 EXCEPT !.name = SeedName] IN
  IF CategoryByName(SeedName) # NoRow
    THEN res' = [sent EXCEPT !.status = 200] /\ UNCHANGED store
  ELSE IF ~CategoryNameUnique(SeedName)     \* category.create throws: .catch
    THEN res' = [sent EXCEPT !.status = 500] /\ UNCHANGED store
  ELSE /\ nextCategoryId <= MaxCategories
       /\ category' = category @@ (nextCategoryId :> [name |-> SeedName])
       /\ nextCategoryId' = nextCategoryId + 1
       /\ res' = [sent EXCEPT !.id = nextCategoryId, !.status = 201]
       /\ UNCHANGED <<profile, nextProfileId, tokens, posts, nextPostId, training, nextTrainingId,
                      sharedAccess, nextShareId, inflight>>

\* ---- the share route of posts, one step per await ----
\* A request that is past its lookups and has its write still to do.
Pending(route, tok, id, userId, found) ==
  [route |-> route, pc |-> "write", tok |-> tok, id |-> id, target |-> userId,
   found |-> found, status |-> 0, name |-> <<>>]

\* POST /api/posts/:id/share up to and including sharedAccess.findFirst
SharePostFind(tok, idParam) ==
  LET postId == asNumber(idParam)
      check == checkPostAccess("POST", postId, tok.id, tok.role)
  IN IF authenticateToken(tok) # "next"
       THEN res' = Unauthorized("sharePost", "POST", "post", postId) /\ UNCHANGED store
     ELSE IF check # "next"
       THEN /\ res' = Response("sharePost", "POST", "post", tok, postId, check, Denied(check))
            /\ UNCHANGED store
     ELSE \E userEmail \in Emails \cup {"undefined"} :
     LET targetUser == ProfileByEmail(userEmail) IN
     IF userEmail = "undefined"
       THEN /\ res' = Response("sharePost", "POST", "post", tok, postId, check, 400)
            /\ UNCHANGED store
     ELSE IF targetUser = NoRow
       THEN /\ res' = Response("sharePost", "POST", "post", tok, postId, check, 404)
            /\ UNCHANGED store
     ELSE IF postId = NaN                   \* sharedAccess.findFirst throws: catch
       THEN /\ res' = Response("sharePost", "POST", "post", tok, postId, check, 500)
            /\ UNCHANGED store
     ELSE \E userId \in targetUser :
          /\ Len(inflight) < MaxInflight
          /\ inflight' = Append(inflight,
               Pending("sharePost", tok, postId, userId, PostExistingShare(postId, userId)))
          /\ UNCHANGED <<profile, nextProfileId, tokens, posts, nextPostId, training, nextTrainingId,
                         sharedAccess, nextShareId, category, nextCategoryId, res>>

\* POST /api/posts/:id/share from sharedAccess.update / sharedAccess.create on
SharePostWrite(r, canView, canEdit, canDelete) ==
  /\ inflight[r].route = "sharePost" /\ inflight[r].pc = "write"
  /\ LET req == inflight[r]
         postId == req.id
         userId == req.target
         sent == [Response("sharePost", "POST", "post", req.tok, postId, "next", 0)
                    EXCEPT !.target = userId, !.prev = req.found]
     IN IF req.found # NoRow
          THEN LET existingShare == First(req.found)
                   stored == {s \in sharedAccess : s.id = existingShare.id}
               IN IF stored = {}             \* update of a row that is gone: catch
                    THEN /\ res' = [sent EXCEPT !.status = 500]
                         /\ inflight' = [inflight EXCEPT ![r].pc = "done", ![r].status = 500]
                         /\ UNCHANGED <<profile, nextProfileId, tokens, posts, nextPostId, training,
                                        nextTrainingId, sharedAccess, nextShareId, category, nextCategoryId>>
                  ELSE /\ sharedAccess' = (sharedAccess \ stored) \cup
                            {[row EXCEPT
                                !.canView = Coalesce(canView, existingShare.canView),
                                !.canEdit = Coalesce(canEdit, existingShare.canEdit),
                                !.canDelete = Coalesce(canDelete, existingShare.canDelete)] : row \in stored}
                       /\ res' = [sent EXCEPT !.status = 200]
                       /\ inflight' = [inflight EXCEPT ![r].pc = "done", ![r].status = 200]
                       /\ UNCHANGED <<profile, nextProfileId, tokens, posts, nextPostId, training,
                                      nextTrainingId, nextShareId, category, nextCategoryId>>
        ELSE IF ~PostExists(postId)          \* foreign key postId -> posts.id: catch
                \/ ~PostGrantUnique(postId, userId)   \* the pair has a row by now: catch
          THEN /\ res' = [sent EXCEPT !.status = 500]
               /\ inflight' = [inflight EXCEPT ![r].pc = "done", ![r].status = 500]
               /\ UNCHANGED <<profile, nextProfileId, tokens, posts, nextPostId, training,
                              nextTrainingId, sharedAccess, nextShareId, category, nextCategoryId>>
        ELSE /\ sharedAccess' = sharedAccess \cup
                  {[id |-> nextShareId, postId |-> postId, trainingId |-> Null,
                    userId |-> userId,
                    canView |-> Coalesce(canView, TRUE),
                    canEdit |-> Coalesce(canEdit, FALSE),
                    canDelete |-> Coalesce(canDelete, FALSE)]}
             /\ nextShareId' = nextShareId + 1
             /\ res' = [sent EXCEPT !.status = 201]
             /\ inflight' = [inflight EXCEPT ![r].pc = "done", ![r].status = 201]
             /\ UNCHANGED <<profile, nextProfileId, tokens, posts, nextPostId, training,
                            nextTrainingId, category, nextCategoryId>>

\* ---- the delete route of posts, one step per await ----
\* the rows that still reference the post left in place
postsDeleteCascade_RowsLeft(postId) == sharedAccess

\* What the datastore does, on posts.delete, with the sharedAccess rows that
\* reference the post: deleting a resource cascades to its rows.
postsDeleteCascade(postId) == {s \in sharedAccess : s.postId # postId}

\* DELETE /api/posts/:id up to and including posts.findUnique
DeletePostFind(tok, idParam) ==
  LET id == asNumber(idParam)
      check == checkPostAccess("DELETE", id, tok.id, tok.role)
  IN IF authenticateToken(tok) # "next"
       THEN res' = Unauthorized("deletePost", "DELETE", "post", id) /\ UNCHANGED store
     ELSE IF check # "next"
       THEN /\ res' = Response("deletePost", "DELETE", "post", tok, id, check, Denied(check))
            /\ UNCHANGED store
     ELSE IF id = NaN
       THEN /\ res' = Response("deletePost", "DELETE", "post", tok, id, check, 500)
            /\ UNCHANGED store
     ELSE IF ~PostExists(id)
       THEN /\ res' = Response("deletePost", "DELETE", "post", tok, id, check, 404)
            /\ UNCHANGED store
     ELSE /\ Len(inflight) < MaxInflight
          /\ inflight' = Append(inflight,
               [Pending("deletePost", tok, id, Null, {}) EXCEPT !.pc = "deleteMany"])
          /\ UNCHANGED <<profile, nextProfileId, tokens, posts, nextPostId, training, nextTrainingId,
                         sharedAccess, nextShareId, category, nextCategoryId, res>>

\* sharedAccess.deleteMany({ where: { postId: id } }), then deleteFile
DeletePostDeleteMany(r) ==
  /\ inflight[r].route = "deletePost" /\ inflight[r].pc = "deleteMany"
  /\ sharedAccess' = deleteManyByPost(inflight[r].id)
  /\ inflight' = [inflight EXCEPT ![r].pc = "delete"]
  /\ UNCHANGED <<profile, nextProfileId, tokens, posts, nextPostId, training, nextTrainingId,
                 nextShareId, category, nextCategoryId, res>>

\* posts.delete({ where: { id } }) and the response
DeletePostDelete(r) ==
  /\ inflight[r].route = "deletePost" /\ inflight[r].pc = "delete"
  /\ LET req == inflight[r]
         id == req.id
     IN IF ~PostExists(id)                  \* the post is gone by now: catch
          THEN /\ res' = Response("deletePost", "DELETE", "post", req.tok, id, "next", 500)
               /\ inflight' = [inflight EXCEPT ![r].pc = "done", ![r].status = 500]
               /\ UNCHANGED <<profile, nextProfileId, tokens, posts, nextPostId, training,
                              nextTrainingId, sharedAccess, nextShareId, category, nextCategoryId>>
          ELSE /\ sharedAccess' = postsDeleteCascade(id)
               /\ posts' = [p \in DOMAIN posts \ {id} |-> posts[p]]
               /\ res' = Response("deletePost", "DELETE", "post", req.tok, id, "next", 200)
               /\ inflight' = [inflight EXCEPT ![r].pc = "done", ![r].status = 200]
               /\ UNCHANGED <<profile, nextProfileId, tokens, nextPostId, training,
                              nextTrainingId, nextShareId, category, nextCategoryId>>

\* ---- the delete route of categories, one step per await ----
\* a referenced category deleted all the same
categoryDeleteRestricted_Never(id) == FALSE

\* What the datastore does, on category.delete, when a post or a training
\* references the category: the deletion is rejected, not cascaded.
categoryDeleteRestricted(id) ==
  \/ \E p \in DOMAIN posts : posts[p].categoryId = id
  \/ \E t \in DOMAIN training : training[t].categoryId = id

\* DELETE /api/categories/:id up to and including posts.findFirst
DeleteCategoriesFindPosts(tok, idParam) ==
  LET id == asNumber(idParam)
      sent == Response("deleteCategories", "DELETE", "none", tok, id, "none", 0)
  IN IF authenticateToken(tok) # "next"
       THEN res' = Unauthorized("deleteCategories", "DELETE", "none", id) /\ UNCHANGED store
     ELSE IF isAdmin(tok) # "next"
       THEN res' = [sent EXCEPT !.check = "403", !.status = 403] /\ UNCHANGED store
     ELSE IF id = NaN                       \* posts.findFirst throws: catch
       THEN res' = [sent EXCEPT !.status = 500] /\ UNCHANGED store
     ELSE IF \E p \in DOMAIN posts : posts[p].categoryId = id
       THEN res' = [sent EXCEPT !.status = 400] /\ UNCHANGED store
     ELSE /\ Len(inflight) < MaxInflight
          /\ inflight' = Append(inflight,
               [Pending("deleteCategories", tok, id, Null, {}) EXCEPT !.pc = "findTraining"])
          /\ UNCHANGED <<profile, nextProfileId, tokens, posts, nextPostId, training, nextTrainingId,
                         sharedAccess, nextShareId, category, nextCategoryId, res>>

\* training.findFirst({ where: { categoryId: id } }) and if (inUse)
DeleteCategoriesFindTraining(r) ==
  /\ inflight[r].route = "deleteCategories" /\ inflight[r].pc = "findTraining"
  /\ LET req == inflight[r]
         sent == Response("deleteCategories", "DELETE", "none", req.tok, req.id, "none", 0)
     IN IF \E t \in DOMAIN training : training[t].categoryId = req.id
          THEN /\ res' = [sent EXCEPT !.status = 400]
               /\ inflight' = [inflight EXCEPT ![r].pc = "done", ![r].status = 400]
          ELSE /\ inflight' = [inflight EXCEPT ![r].pc = "delete"]
               /\ UNCHANGED res
  /\ UNCHANGED <<profile, nextProfileId, tokens, posts, nextPostId, training, nextTrainingId,
                 sharedAccess, nextShareId, category, nextCategoryId>>

\* category.delete({ where: { id } }) and the response
DeleteCategoriesDelete(r) ==
  /\ inflight[r].route = "deleteCategories" /\ inflight[r].pc = "delete"
  /\ LET req == inflight[r]
         id == req.id
         sent == Response("deleteCategories", "DELETE", "none", req.tok, id, "none", 0)
     IN IF ~CategoryExists(id) \/ categoryDeleteRestricted(id)   \* category.delete throws: catch
          THEN /\ res' = [sent EXCEPT !.status = 500]
               /\ inflight' = [inflight EXCEPT ![r].pc = "done", ![r].status = 500]
               /\ UNCHANGED category
          ELSE /\ category' = [c \in DOMAIN category \ {id} |-> category[c]]
               /\ res' = [sent EXCEPT !.status = 200]
               /\ inflight' = [inflight EXCEPT ![r].pc = "done", ![r].status = 200]
  /\ UNCHANGED <<profile, nextProfileId, tokens, posts, nextPostId, training, nextTrainingId,
                 sharedAccess, nextShareId, nextCategoryId>>

\* ---- category creation, one step per await ----
\* POST /api/categories up to and including category.findFirst
PostCategoriesFind(tok, name) ==
  LET sent == [Response("postCategories", "POST", "none", tok, Null, "none", 0) EXCEPT !.name = name] IN
  IF authenticateToken(tok) # "next"
    THEN res' = [Unauthorized("postCategories", "POST", "none", Null) EXCEPT !.name = name]
         /\ UNCHANGED store
  ELSE IF isAdmin(tok) # "next"
    THEN res' = [sent EXCEPT !.check = "403", !.status = 403] /\ UNCHANGED store
  ELSE IF name = <<>> \/ trim(name) = <<>>
    THEN res' = [sent EXCEPT !.status = 400] /\ UNCHANGED store
  ELSE IF CategoryByNameInsensitive(trim(name)) # NoRow
    THEN res' = [sent EXCEPT !.status = 409] /\ UNCHANGED store
  ELSE /\ Len(inflight) < MaxInflight
       /\ inflight' = Append(inflight,
            [Pending("postCategories", tok, Null, Null, {}) EXCEPT !.name = name])
       /\ UNCHANGED <<profile, nextProfileId, tokens, posts, nextPostId, training, nextTrainingId,
                      sharedAccess, nextShareId, category, nextCategoryId, res>>

\* POST /api/categories from category.create on
PostCategoriesWrite(r) ==
  /\ inflight[r].route = "postCategories" /\ inflight[r].pc = "write"
  /\ LET req == inflight[r]
         sent == [Response("postCategories", "POST", "none", req.tok, Null, "none", 0)
                    EXCEPT !.name = req.name]
     IN IF ~CategoryNameUnique(trim(req.name))   \* the name is taken by now: catch
          THEN /\ res' = [sent EXCEPT !.status = 500]
               /\ inflight' = [inflight EXCEPT ![r].pc = "done", ![r].status = 500]
               /\ UNCHANGED <<profile, nextProfileId, tokens, posts, nextPostId, training,
                              nextTrainingId, sharedAccess, nextShareId, category, nextCategoryId>>
        ELSE /\ nextCategoryId <= MaxCategories
             /\ category' = category @@ (nextCategoryId :> [name |-> trim(req.name)])
             /\ nextCategoryId' = nextCategoryId + 1
             /\ res' = [sent EXCEPT !.id = nextCategoryId, !.status = 201]
             /\ inflight' = [inflight EXCEPT ![r].pc = "done", ![r].status = 201, ![r].id = nextCategoryId]
             /\ UNCHANGED <<profile, nextProfileId, tokens, posts, nextPostId, training,
                            nextTrainingId, sharedAccess, nextShareId>>

\* mockCategoria.js up to and including category.findFirst
createCategoryFind ==
  LET sent == [Response("createCategory", "POST", "none", NoToken, Null, "none", 0)
                 EXCEPT !.name = SeedName] IN
  IF CategoryByName(SeedName) # NoRow
    THEN res' = [sent EXCEPT !.status = 200] /\ UNCHANGED store
  ELSE /\ Len(inflight) < MaxInflight
       /\ inflight' = Append(inflight,
            [Pending("createCategory", NoToken, Null, Null, {}) EXCEPT !.name = SeedName])
       /\ UNCHANGED <<profile, nextProfileId, tokens, posts, nextPostId, training, nextTrainingId,
                      sharedAccess, nextShareId, category, nextCategoryId, res>>

\* mockCategoria.js from category.create on
createCategoryWrite(r) ==
  /\ inflight[r].route = "createCategory" /\ inflight[r].pc = "write"
  /\ LET sent == [Response("createCategory", "POST", "none", NoToken, Null, "none", 0)
                    EXCEPT !.name = SeedName]
     IN IF ~CategoryNameUnique(SeedName)         \* category.create throws: .catch
          THEN /\ res' = [sent EXCEPT !.status = 500]
               /\ inflight' = [inflight EXCEPT ![r].pc = "done", ![r].status = 500]
               /\ UNCHANGED <<profile, nextProfileId, tokens, posts, nextPostId, training,
                              nextTrainingId, sharedAccess, nextShareId, category, nextCategoryId>>
        ELSE /\ nextCategoryId <= MaxCategories
             /\ category' = category @@ (nextCategoryId :> [name |-> SeedName])
             /\ nextCategoryId' = nextCategoryId + 1
             /\ res' = [sent EXCEPT !.id = nextCategoryId, !.status = 201]
             /\ inflight' = [inflight EXCEPT ![r].pc = "done", ![r].status = 201, ![r].id = nextCategoryId]
             /\ UNCHANGED <<profile, nextProfileId, tokens, posts, nextPostId, training,
                            nextTrainingId, sharedAccess, nextShareId>>

\* The two role routes below are requests of SpecRoles, not of Spec: in Spec
\* every account keeps the role it was created with, and the role of a token
\* is that role.

\* ---- PATCH /api/users/:id/promote ----
Promote(tok, idParam) ==
  LET userId == asNumber(idParam) IN
  IF authenticateToken(tok) # "next"
    THEN res' = Unauthorized("promote", "PATCH", "none", userId) /\ UNCHANGED store
  ELSE IF isAdmin(tok) # "next"
    THEN /\ res' = Response("promote", "PATCH", "none", tok, userId, "403", 403)
         /\ UNCHANGED store
  ELSE IF userId = NaN                     \* profile.findUnique throws: catch
    THEN /\ res' = Response("promote", "PATCH", "none", tok, userId, "next", 500)
         /\ UNCHANGED store
  ELSE IF userId \notin DOMAIN profile
    THEN /\ res' = Response("promote", "PATCH", "none", tok, userId, "next", 404)
         /\ UNCHANGED store
  ELSE /\ profile' = [profile EXCEPT ![userId].role = "ADMIN"]
       /\ res' = Response("promote", "PATCH", "none", tok, userId, "next", 200)
       /\ UNCHANGED <<nextProfileId, tokens, posts, nextPostId, training, nextTrainingId, sharedAccess, nextShareId, category, nextCategoryId, inflight>>

\* the guard left out: every target goes on to the update
SameAccount_Never(userId, reqUserId) == FALSE

\* if (userId === req.userId)
SameAccount(userId, reqUserId) == userId # NaN /\ userId = reqUserId   \* NaN === x is false

\* ---- PATCH /api/users/:id/demote ----
Demote(tok, idParam) ==
  LET userId == asNumber(idParam) IN
  IF authenticateToken(tok) # "next"
    THEN res' = Unauthorized("demote", "PATCH", "none", userId) /\ UNCHANGED store
  ELSE IF isAdmin(tok) # "next"
    THEN /\ res' = Response("demote", "PATCH", "none", tok, userId, "403", 403)
         /\ UNCHANGED store
  ELSE IF SameAccount(userId, tok.id)
    THEN /\ res' = Response("demote", "PATCH", "none", tok, userId, "next", 400)
         /\ UNCHANGED store
  ELSE IF userId = NaN                     \* profile.findUnique throws: catch
    THEN /\ res' = Response("demote", "PATCH", "none", tok, userId, "next", 500)
         /\ UNCHANGED store
  ELSE IF userId \notin DOMAIN profile
    THEN /\ res' = Response("demote", "PATCH", "none", tok, userId, "next", 404)
         /\ UNCHANGED store
  ELSE /\ profile' = [profile EXCEPT ![userId].role = "USER"]
       /\ res' = Response("demote", "PATCH", "none", tok, userId, "next", 200)
       /\ UNCHANGED <<nextProfileId, tokens, posts, nextPostId, training, nextTrainingId, sharedAccess, nextShareId, category, nextCategoryId, inflight>>

Next ==
  \/ \E email \in Emails, password \in Passwords : Signup(email, password)
  \/ \E email \in Emails, password \in Passwords \cup {"errada"} : Login(email, password)
  \/ \E tok \in Credentials : CreatePost(tok)
  \/ \E tok \in Credentials, idParam \in IdParams(MaxResources) : GetPostFile(tok, idParam)
  \/ \E tok \in Credentials, idParam \in IdParams(MaxResources) : DeletePost(tok, idParam)
  \/ \E tok \in Credentials, idParam \in IdParams(MaxResources) : PatchPostVisibility(tok, idParam)
  \/ \E tok \in Credentials, idParam \in IdParams(MaxResources) : SharePost(tok, idParam)
  \/ \E tok \in Credentials, idParam \in IdParams(MaxResources) : RemovePostShare(tok, idParam)
  \/ \E tok \in Credentials : CreateTraining(tok)
  \/ \E tok \in Credentials, idParam \in IdParams(MaxResources) : GetTrainingFile(tok, idParam)
  \/ \E tok \in Credentials, idParam \in IdParams(MaxResources) : DeleteTraining(tok, idParam)
  \/ \E tok \in Credentials, idParam \in IdParams(MaxResources) : PatchTrainingVisibility(tok, idParam)
  \/ \E tok \in Credentials, idParam \in IdParams(MaxResources) : ShareTraining(tok, idParam)
  \/ \E tok \in Credentials, idParam \in IdParams(MaxResources) : RemoveTrainingShare(tok, idParam)

Spec == Init /\ [][Next]_vars

\* Share requests taken one await at a time, so that two of them overlap.
NextShareRace ==
  \/ \E email \in Emails, password \in Passwords : Signup(email, password)
  \/ \E email \in Emails, password \in Passwords : Login(email, password)
  \/ \E tok \in Credentials : CreatePost(tok)
  \/ \E tok \in Credentials, idParam \in IdParams(MaxResources) : SharePostFind(tok, idParam)
  \/ \E r \in DOMAIN inflight, canView \in FlagInputs :
       SharePostWrite(r, canView, "undefined", "undefined")

SpecShareRace == Init /\ [][NextShareRace]_vars

\* Accounts, logins and the two role routes.
NextRoles ==
  \/ \E email \in Emails, password \in Passwords : Signup(email, password)
  \/ \E email \in Emails, password \in Passwords \cup {"errada"} : Login(email, password)
  \/ \E tok \in Credentials, idParam \in IdParams(MaxUsers) : Promote(tok, idParam)
  \/ \E tok \in Credentials, idParam \in IdParams(MaxUsers) : Demote(tok, idParam)

SpecRoles == Init /\ [][NextRoles]_vars

\* Categories, the resources that reference them, and the demote route (the
\* third request that can end in a conflict).
NextCategories ==
  \/ \E email \in Emails, password \in Passwords : Signup(email, password)
  \/ \E email \in Emails, password \in Passwords : Login(email, password)
  \/ \E tok \in Credentials : CreatePost(tok)
  \/ \E tok \in Credentials : CreateTraining(tok)
  \/ \E tok \in Credentials : GetCategories(tok)
  \/ \E tok \in Credentials, name \in NameInputs : PostCategories(tok, name)
  \/ \E tok \in Credentials, idParam \in IdParams(MaxCategories) : DeleteCategories(tok, idParam)
  \/ createCategory
  \/ \E tok \in Credentials, idParam \in IdParams(MaxUsers) : Demote(tok, idParam)

SpecCategories == Init /\ [][NextCategories]_vars

\* Category creations (route and seed script) taken one await at a time, with
\* deletions in between.
NextCategoryRace ==
  \/ \E email \in Emails, password \in Passwords : Login(email, password)
  \/ \E tok \in Credentials, name \in NameInputs : PostCategoriesFind(tok, name)
  \/ \E r \in DOMAIN inflight : PostCategoriesWrite(r)
  \/ createCategoryFind
  \/ \E r \in DOMAIN inflight : createCategoryWrite(r)
  \/ \E tok \in Credentials, idParam \in IdParams(MaxCategories) : DeleteCategories(tok, idParam)

SpecCategoryRace == Init /\ [][NextCategoryRace]_vars

\* ---- a database in use ----
\* The flags of the rows of InitShared: view only, delete only, all three.
SharedFlags == {<<TRUE, FALSE, FALSE>>, <<FALSE, FALSE, TRUE>>, <<TRUE, TRUE, TRUE>>}

\* a sharedAccess row as sharedAccess.create leaves it
ShareRow(id, postId, trainingId, userId, flags) ==
  [id |-> id, postId |-> postId, trainingId |-> trainingId, userId |-> userId,
   canView |-> flags[1], canEdit |-> flags[2], canDelete |-> flags[3]]

\* The database after two signups, the logins of the three accounts, the
\* creation of post 1 and of training 1 in the seeded category and some share
\* and remove-share requests on them: post 1 and training 1 carry the same
\* numeric id, and each of the accounts 2 and 3 has at most one row on post 1.
InitShared ==
  /\ profile = (1 :> [email |-> "admin@exemplo.com", password |-> "senha_secreta", role |-> "ADMIN"])
             @@ (2 :> [email |-> "user1@exemplo.com", password |-> "senha_secreta", role |-> "USER"])
             @@ (3 :> [email |-> "user2@exemplo.com", password |-> "senha_secreta", role |-> "USER"])
  /\ nextProfileId = 4
  /\ tokens = {[id |-> 1, role |-> "ADMIN"], [id |-> 2, role |-> "USER"], [id |-> 3, role |-> "USER"]}
  /\ \E ownerId \in {1, 2}, isPublic \in BOOLEAN :
       posts = (1 :> [ownerId |-> ownerId, isPublic |-> isPublic, categoryId |-> 1])
  /\ nextPostId = 2
  /\ \E isPublic \in BOOLEAN :
       training = (1 :> [ownerId |-> 2, isPublic |-> isPublic, categoryId |-> 1])
  /\ nextTrainingId = 2
  /\ \E of2 \in SUBSET SharedFlags, of3 \in SUBSET SharedFlags, onTraining \in BOOLEAN :
       /\ Cardinality(of2) <= 1 /\ Cardinality(of3) <= 1
       /\ sharedAccess = {ShareRow(1, 1, Null, 2, f) : f \in of2}
                            \cup {ShareRow(2, 1, Null, 3, f) : f \in of3}
                            \cup (IF onTraining
                                   THEN {ShareRow(3, Null, 1, 3, <<TRUE, FALSE, FALSE>>)} ELSE {})
  /\ nextShareId = 4
  /\ category = (1 :> [name |-> SeedName])
  /\ nextCategoryId = 2
  /\ inflight = <<>>
  /\ res = Response("none", "GET", "none", NoToken, Null, "none", 0)

NextShared ==
  \/ \E tok \in Credentials, idParam \in IdParams(MaxResources) : DeletePost(tok, idParam)
  \/ \E tok \in Credentials, idParam \in IdParams(MaxResources) : DeleteTraining(tok, idParam)
  \/ \E tok \in Credentials, idParam \in IdParams(MaxResources) : RemovePostShare(tok, idParam)
  \/ \E tok \in Credentials, idParam \in IdParams(MaxResources) : RemoveTrainingShare(tok, idParam)
  \/ \E tok \in Credentials, categoryId \in CategoryInputs : ListPosts(tok, categoryId)
  \/ \E tok \in Credentials, categoryId \in CategoryInputs : ListTrainings(tok, categoryId)

SpecShared == InitShared /\ [][NextShared]_vars

\* ---- the accounts in place, no resource yet ----
\* The database after one signup and the logins of both accounts (and, or
\* not, the promotion of account 2 after its login).
InitOwnership ==
  /\ \E role \in {"USER", "ADMIN"} :
       profile = (1 :> [email |-> "admin@exemplo.com", password |-> "senha_secreta", role |-> "ADMIN"])
              @@ (2 :> [email |-> "user1@exemplo.com", password |-> "senha_secreta", role |-> role])
  /\ nextProfileId = 3
  /\ tokens = {[id |-> 1, role |-> "ADMIN"], [id |-> 2, role |-> "USER"]}
  /\ posts = <<>>
  /\ nextPostId = 1
  /\ training = <<>>
  /\ nextTrainingId = 1
  /\ sharedAccess = {}
  /\ nextShareId = 1
  /\ category = (1 :> [name |-> SeedName])
  /\ nextCategoryId = 2
  /\ inflight = <<>>
  /\ res = Response("none", "GET", "none", NoToken, Null, "none", 0)

\* Creation, visibility, sharing and deletion of resources, with the role
\* routes and the deletion of categories in between, one request at a time.
NextOwnership ==
  \/ \E tok \in Credentials : CreatePost(tok)
  \/ \E tok \in Credentials : CreateTraining(tok)
  \/ \E tok \in Credentials, idParam \in IdParams(MaxResources) : PatchPostVisibility(tok, idParam)
  \/ \E tok \in Credentials, idParam \in IdParams(MaxResources) : PatchTrainingVisibility(tok, idParam)
  \/ \E tok \in Credentials, idParam \in IdParams(MaxResources) : SharePost(tok, idParam)
  \/ \E tok \in Credentials, idParam \in IdParams(MaxResources) : RemovePostShare(tok, idParam)
  \/ \E tok \in Credentials, idParam \in IdParams(MaxResources) : DeletePost(tok, idParam)
  \/ \E tok \in Credentials, idParam \in IdParams(MaxResources) : DeleteTraining(tok, idParam)
  \/ \E tok \in Credentials, idParam \in IdParams(MaxCategories) : DeleteCategories(tok, idParam)
  \/ \E tok \in Credentials, idParam \in IdParams(MaxUsers) : Promote(tok, idParam)
  \/ \E tok \in Credentials, idParam \in IdParams(MaxUsers) : Demote(tok, idParam)

SpecOwnership == InitOwnership /\ [][NextOwnership]_vars

\* ---- a private post, not shared yet ----
\* The database after one signup, the logins of both accounts and the creation
\* of private post 1 by account 1.
InitRevoke ==
  /\ profile = (1 :> [email |-> "admin@exemplo.com", password |-> "senha_secreta", role |-> "ADMIN"])
             @@ (2 :> [email |-> "user1@exemplo.com", password |-> "senha_secreta", role |-> "USER"])
  /\ nextProfileId = 3
  /\ tokens = {[id |-> 1, role |-> "ADMIN"], [id |-> 2, role |-> "USER"]}
  /\ posts = (1 :> NewPost(1, "b:false", 1))
  /\ nextPostId = 2
  /\ training = <<>>
  /\ nextTrainingId = 1
  /\ sharedAccess = {}
  /\ nextShareId = 1
  /\ category = (1 :> [name |-> SeedName])
  /\ nextCategoryId = 2
  /\ inflight = <<>>
  /\ res = Response("none", "GET", "none", NoToken, Null, "none", 0)

\* Shares of the post taken one await at a time, so that the requests served
\* stay on record, with remove-share, read, visibility and delete requests.
NextRevoke ==
  \/ \E tok \in Credentials, idParam \in IdParams(MaxResources) : SharePostFind(tok, idParam)
  \/ \E r \in DOMAIN inflight, canView \in FlagInputs :
       SharePostWrite(r, canView, "undefined", "undefined")
  \/ \E tok \in Credentials, idParam \in IdParams(MaxResources) : RemovePostShare(tok, idParam)
  \/ \E tok \in Credentials, idParam \in IdParams(MaxResources) : GetPostFile(tok, idParam)
  \/ \E tok \in Credentials, idParam \in IdParams(MaxResources) : PatchPostVisibility(tok, idParam)
  \/ \E tok \in Credentials, idParam \in IdParams(MaxResources) : DeletePost(tok, idParam)

SpecRevoke == InitRevoke /\ [][NextRevoke]_vars

\* Share requests and delete requests on the post, each taken one await at a
\* time, in any order.
NextDeleteRace ==
  \/ \E tok \in Credentials, idParam \in IdParams(MaxResources) : SharePostFind(tok, idParam)
  \/ \E r \in DOMAIN inflight, canView \in FlagInputs :
       SharePostWrite(r, canView, "undefined", "undefined")
  \/ \E tok \in Credentials, idParam \in IdParams(MaxResources) : DeletePostFind(tok, idParam)
  \/ \E r \in DOMAIN inflight : DeletePostDeleteMany(r)
  \/ \E r \in DOMAIN inflight : DeletePostDelete(r)

SpecDeleteRace == InitRevoke /\ [][NextDeleteRace]_vars

\* Creations of resources, and deletions of categories taken one await at a
\* time, in any order.
NextCategoryDeleteRace ==
  \/ \E tok \in Credentials : CreatePost(tok)
  \/ \E tok \in Credentials : CreateTraining(tok)
  \/ \E tok \in Credentials, idParam \in IdParams(MaxCategories) : DeleteCategoriesFindPosts(tok, idParam)
  \/ \E r \in DOMAIN inflight : DeleteCategoriesFindTraining(r)
  \/ \E r \in DOMAIN inflight : DeleteCategoriesDelete(r)

SpecCategoryDeleteRace == InitOwnership /\ [][NextCategoryDeleteRace]_vars

\* ======================= properties =======================

\* numeric ids a route parameter can denote, NaN included
AnyId == {asNumber(p) : p \in IdParams(MaxResources)}

\* the methods of the three verb classes: READ, UPDATE, DELETE
VerbMethods == {"GET", "PUT", "PATCH", "DELETE"}

GuardedRoutes == {"getPostFile", "deletePost", "postVisibility", "sharePost", "removePostShare",
                  "getTrainingFile", "deleteTraining", "trainingVisibility", "shareTraining",
                  "removeTrainingShare"}

ShareRoutes == {"sharePost", "shareTraining"}

VisibilityRoutes == {"postVisibility", "trainingVisibility"}

\* the request behind res went through authenticateToken and reached the access check
Checked == res.route \in GuardedRoutes /\ res.role # "NONE"

\* C1: whatever the resource (absent, public, private, shared or not) and the
\* method, the access check lets a request with role ADMIN through; no checked
\* ADMIN request is answered 403.
C1_AdminPasses ==
  /\ \A m \in Methods, id \in AnyId, u \in DOMAIN profile :
       /\ checkPostAccess(m, id, u, "ADMIN") = "next"
       /\ checkTrainingAccess(m, id, u, "ADMIN") = "next"
  /\ (Checked /\ res.role = "ADMIN") => (res.check = "next" /\ res.status # 403)

\* an ADMIN has deleted a private resource of another account, holding no grant on it
C1_Witness ==
  /\ Checked /\ res.role = "ADMIN" /\ res.method = "DELETE"
  /\ res.existed /\ res.ownerId # res.actor /\ ~res.wasPublic /\ res.grant = {}
  /\ res.status = 200

\* C2: the owner of an existing resource passes the access check for every
\* verb class, whatever isPublic is and whatever rows the owner has in sharedAccess.
C2_OwnerPasses ==
  /\ \A m \in VerbMethods, role \in {"USER", "ADMIN"} :
       /\ \A p \in DOMAIN posts : checkPostAccess(m, p, posts[p].ownerId, role) = "next"
       /\ \A t \in DOMAIN training : checkTrainingAccess(m, t, training[t].ownerId, role) = "next"
  /\ (Checked /\ res.existed /\ res.actor = res.ownerId /\ res.method \in VerbMethods)
       => res.check = "next"

\* a USER owner holding a row with every flag false on the own private
\* resource has changed its visibility
C2_Witness ==
  /\ Checked /\ res.role = "USER" /\ res.existed /\ res.actor = res.ownerId
  /\ ~res.wasPublic
  /\ \E g \in res.grant : ~g.canView /\ ~g.canEdit /\ ~g.canDelete
  /\ res.method = "PATCH" /\ res.status = 200

\* C3: on a public resource an authenticated actor that is neither ADMIN nor
\* the owner is let through on GET and answered 403 on PUT, PATCH and DELETE,
\* whatever flags a sharedAccess row gives it.
C3_PublicReadOnly ==
  /\ \A u \in DOMAIN profile, m \in VerbMethods :
       /\ \A p \in DOMAIN posts :
            (posts[p].isPublic /\ posts[p].ownerId # u) =>
              checkPostAccess(m, p, u, "USER") = (IF m = "GET" THEN "next" ELSE "403")
       /\ \A t \in DOMAIN training :
            (training[t].isPublic /\ training[t].ownerId # u) =>
              checkTrainingAccess(m, t, u, "USER") = (IF m = "GET" THEN "next" ELSE "403")
  /\ (Checked /\ res.role = "USER" /\ res.existed /\ res.wasPublic
        /\ res.actor # res.ownerId /\ res.method \in VerbMethods)
       => /\ res.check = (IF res.method = "GET" THEN "next" ELSE "403")
          /\ (res.method # "GET" => res.status = 403)

\* a grantee with canEdit and canDelete on a public resource was refused its deletion
C3_Witness ==
  /\ Checked /\ res.role = "USER" /\ res.existed /\ res.wasPublic
  /\ res.actor # res.ownerId
  /\ \E g \in res.grant : g.canEdit /\ g.canDelete
  /\ res.method = "DELETE" /\ res.status = 403

\* the flag of a sharedAccess row that answers for a method
FlagFor(m, g) ==
  CASE m = "GET" -> g.canView
    [] m \in {"PUT", "PATCH"} -> g.canEdit
    [] m = "DELETE" -> g.canDelete

\* C4: on a private resource an actor that is neither ADMIN nor the owner is
\* let through for a verb class exactly when it has a sharedAccess row on the
\* resource whose flag for that class is true, and is answered 403 otherwise.
C4_PrivateByGrant ==
  /\ \A u \in DOMAIN profile, m \in VerbMethods :
       /\ \A p \in DOMAIN posts :
            (~posts[p].isPublic /\ posts[p].ownerId # u) =>
              checkPostAccess(m, p, u, "USER") =
                (IF \E g \in sharedAccess : g.postId = p /\ g.userId = u /\ FlagFor(m, g)
                   THEN "next" ELSE "403")
       /\ \A t \in DOMAIN training :
            (~training[t].isPublic /\ training[t].ownerId # u) =>
              checkTrainingAccess(m, t, u, "USER") =
                (IF \E g \in sharedAccess : g.trainingId = t /\ g.userId = u /\ FlagFor(m, g)
                   THEN "next" ELSE "403")
  /\ (Checked /\ res.role = "USER" /\ res.existed /\ ~res.wasPublic
        /\ res.actor # res.ownerId /\ res.method \in VerbMethods)
       => /\ res.check = (IF \E g \in res.grant : FlagFor(res.method, g) THEN "next" ELSE "403")
          /\ (res.check = "403" => res.status = 403)

\* a grantee with a view-only row on a private resource was refused its deletion
C4_Witness ==
  /\ Checked /\ res.role = "USER" /\ res.existed /\ ~res.wasPublic
  /\ res.actor # res.ownerId
  /\ \E g \in res.grant : g.canView /\ ~g.canEdit /\ ~g.canDelete
  /\ res.method = "DELETE" /\ res.status = 403

\* the sharedAccess rows of the pair (resource of res, user) in the current state
RowsOf(kind, id, userId) ==
  IF kind = "post" THEN PostSharedWith(id, userId) ELSE TrainingSharedWith(id, userId)

\* C5 as stated: the share route follows the UPDATE class, so that on a private
\* resource an actor that is neither ADMIN nor the owner is let through exactly
\* when it holds a row with canEdit = true.
C5_ShareFollowsCanEdit ==
  (Checked /\ res.route \in ShareRoutes /\ res.role = "USER" /\ res.existed
     /\ res.actor # res.ownerId /\ ~res.wasPublic)
    => (res.check = "next" <=> \E g \in res.grant : g.canEdit)

\* C5 amended: the share route is a POST, which no flag of a sharedAccess row
\* answers for: on an existing resource the access check lets through the
\* ADMIN and the owner only, and answers every other actor 403 whatever flags
\* it holds (canEdit = true included).
C5_ShareByOwnerOrAdmin ==
  /\ \A u \in DOMAIN profile :
       /\ \A p \in DOMAIN posts :
            posts[p].ownerId # u => checkPostAccess("POST", p, u, "USER") = "403"
       /\ \A t \in DOMAIN training :
            training[t].ownerId # u => checkTrainingAccess("POST", t, u, "USER") = "403"
  /\ (Checked /\ res.route \in ShareRoutes /\ res.existed)
       => /\ res.check = (IF res.role = "ADMIN" \/ res.actor = res.ownerId THEN "next" ELSE "403")
          /\ (res.check = "403" => res.status = 403)

\* a grantee with canEdit on a private resource was refused sharing it
C5_Witness ==
  /\ Checked /\ res.route \in ShareRoutes /\ res.role = "USER" /\ res.existed
  /\ res.actor # res.ownerId /\ ~res.wasPublic
  /\ \E g \in res.grant : g.canEdit
  /\ res.status = 403

\* C6 as stated: a step that changes isPublic of a resource is a request of
\* an ADMIN or of the owner of that resource.
C6_VisibilityByOwnerOrAdmin ==
  [][ /\ \A p \in DOMAIN posts \cap DOMAIN posts' :
           posts'[p].isPublic # posts[p].isPublic
             => (res'.role = "ADMIN" \/ res'.actor = posts[p].ownerId)
      /\ \A t \in DOMAIN training \cap DOMAIN training' :
           training'[t].isPublic # training[t].isPublic
             => (res'.role = "ADMIN" \/ res'.actor = training[t].ownerId) ]_vars

\* C6 amended: a step that changes isPublic of a resource is a visibility
\* request on that resource by an ADMIN, by the owner, or by an actor holding
\* a row with canEdit = true on the resource, which was private.
C6_VisibilityByOwnerAdminOrEditor ==
  [][ /\ \A p \in DOMAIN posts \cap DOMAIN posts' :
           posts'[p].isPublic # posts[p].isPublic
             => /\ res'.route = "postVisibility" /\ res'.id = p /\ res'.status = 200
                /\ \/ res'.role = "ADMIN"
                   \/ res'.actor = posts[p].ownerId
                   \/ /\ ~posts[p].isPublic
                      /\ \E g \in sharedAccess :
                           g.postId = p /\ g.userId = res'.actor /\ g.canEdit
      /\ \A t \in DOMAIN training \cap DOMAIN training' :
           training'[t].isPublic # training[t].isPublic
             => /\ res'.route = "trainingVisibility" /\ res'.id = t /\ res'.status = 200
                /\ \/ res'.role = "ADMIN"
                   \/ res'.actor = training[t].ownerId
                   \/ /\ ~training[t].isPublic
                      /\ \E g \in sharedAccess :
                           g.trainingId = t /\ g.userId = res'.actor /\ g.canEdit ]_vars

\* a grantee with canEdit, neither ADMIN nor owner, has made a private resource public
C6_Witness ==
  /\ Checked /\ res.route \in VisibilityRoutes /\ res.role = "USER" /\ res.existed
  /\ res.actor # res.ownerId /\ ~res.wasPublic
  /\ \E g \in res.grant : g.canEdit
  /\ res.status = 200
  /\ IF res.kind = "post" THEN posts[res.id].isPublic ELSE training[res.id].isPublic

\* C7: an authenticated request on a resource-scoped route whose numeric id
\* names no resource is answered 404, whatever the role of the actor.
C7_MissingIs404 ==
  (Checked /\ res.id # NaN /\ ~res.existed) => res.status = 404

\* C8: an authenticated request on a resource-scoped route whose id is not
\* numeric is answered 400.
C8_NonNumericIs400 ==
  (Checked /\ res.id = NaN) => res.status = 400

\* C9: no pair (resource, user) has two sharedAccess rows; after a share
\* request that succeeded the pair has exactly one row, and when the pair had a
\* row before, that row was updated (200, same row id) and none was inserted.
C9_OneGrantPerPair ==
  /\ \A u \in DOMAIN profile, id \in AnyId :
       /\ Cardinality(PostSharedWith(id, u)) <= 1
       /\ Cardinality(TrainingSharedWith(id, u)) <= 1
  /\ (res.route \in ShareRoutes /\ res.status \in {200, 201})
       => LET now == RowsOf(res.kind, res.id, res.target) IN
          /\ Cardinality(now) = 1
          /\ res.prev # {} => (res.status = 200 /\ {g.id : g \in now} = {g.id : g \in res.prev})
          /\ res.prev = {} => res.status = 201

\* a share request has found the row of its pair and updated it
C9_Witness ==
  /\ res.route \in ShareRoutes /\ res.status = 200 /\ res.prev # {}
  /\ Cardinality(RowsOf(res.kind, res.id, res.target)) = 1

\* the value a flag has after a share request that sent v, old being the value
\* it had before (or its default on creation)
Supplied(v, old) ==
  CASE v = "b:true" -> TRUE
    [] v = "b:false" -> FALSE
    [] v = "undefined" -> old

\* C10: after a share request that succeeded, each flag of the row of the pair
\* is the value sent for it, also when false was sent; a flag that was not
\* sent keeps the value of the row found, or is true / false / false for
\* canView / canEdit / canDelete when the row was created.
C10_FlagsIndependent ==
  (res.route \in ShareRoutes /\ res.status \in {200, 201})
    => LET now == RowsOf(res.kind, res.id, res.target)
           old == IF res.prev = {}
                    THEN [canView |-> TRUE, canEdit |-> FALSE, canDelete |-> FALSE]
                    ELSE CHOOSE o \in res.prev : TRUE
       IN /\ now # {}
          /\ \A g \in now :
               /\ g.canView = Supplied(res.flags[1], old.canView)
               /\ g.canEdit = Supplied(res.flags[2], old.canEdit)
               /\ g.canDelete = Supplied(res.flags[3], old.canDelete)

\* a share request has set canView to false on a row that had it true, sent
\* nothing for canEdit, which stays true, and created canDelete anew as true
C10_Witness ==
  /\ res.route \in ShareRoutes /\ res.status = 200
  /\ res.flags = <<"b:false", "undefined", "b:true">>
  /\ \E o \in res.prev : o.canView /\ o.canEdit /\ ~o.canDelete
  /\ \E g \in RowsOf(res.kind, res.id, res.target) : ~g.canView /\ g.canEdit /\ g.canDelete

\* C11: whatever the interleaving of the steps of two share requests, no pair
\* (resource, user) has more than one sharedAccess row, in particular when both
\* requests have finished; a request whose insert finds the pair taken by then
\* fails (500) and adds nothing.
C11_OneGrantUnderRace ==
  /\ \A u \in DOMAIN profile, id \in AnyId : Cardinality(PostSharedWith(id, u)) <= 1
  /\ \A r \in DOMAIN inflight :
       (inflight[r].pc = "done" /\ inflight[r].status \in {200, 201})
         => Cardinality(PostSharedWith(inflight[r].id, inflight[r].target)) = 1

\* two share requests for the same pair both looked before either wrote, and
\* both have finished: one inserted the row, the other failed
C11_Witness ==
  /\ Len(inflight) = 2
  /\ inflight[1].id = inflight[2].id /\ inflight[1].target = inflight[2].target
  /\ inflight[1].found = {} /\ inflight[2].found = {}
  /\ inflight[1].pc = "done" /\ inflight[2].pc = "done"
  /\ {inflight[1].status, inflight[2].status} = {201, 500}
  /\ Cardinality(PostSharedWith(inflight[1].id, inflight[1].target)) = 1

\* C12: a delete request that succeeded has removed the resource and every
\* sharedAccess row of it, and nothing else: the rows left are exactly the rows
\* that referenced another resource (a training of the same numeric id
\* included, when a post is deleted, and the other way round).
C12_DeleteCascades ==
  [][ /\ (res'.route = "deletePost" /\ res'.status = 200)
           => /\ ~\E s \in sharedAccess' : s.postId = res'.id
              /\ {s \in sharedAccess : s.postId # res'.id} = sharedAccess'
              /\ res'.id \in DOMAIN posts /\ res'.id \notin DOMAIN posts'
              /\ training' = training
      /\ (res'.route = "deleteTraining" /\ res'.status = 200)
           => /\ ~\E s \in sharedAccess' : s.trainingId = res'.id
              /\ {s \in sharedAccess : s.trainingId # res'.id} = sharedAccess'
              /\ res'.id \in DOMAIN training /\ res'.id \notin DOMAIN training'
              /\ posts' = posts ]_vars

\* a grantee with canDelete has deleted post 1: its own row on the post is
\* gone with the post, and the row on training 1 is still there
C12_Witness ==
  /\ res.route = "deletePost" /\ res.status = 200 /\ res.role = "USER"
  /\ \E g \in res.grant : g.canDelete
  /\ ~PostExists(res.id)
  /\ ~\E s \in sharedAccess : s.postId = res.id
  /\ \E s \in sharedAccess : s.trainingId = res.id

\* C13: a demote request that carries an ADMIN token and names the account
\* of the token is rejected and changes no account (an ADMIN account stays
\* ADMIN); one that names another existing account succeeds, sets the role
\* of that account to USER and leaves every other account as it was.
C13_DemoteGuard ==
  [][ (res'.route = "demote" /\ res'.role = "ADMIN")
        => /\ res'.id = res'.actor
                => (res'.status \in 400..499 /\ profile' = profile)
           /\ (res'.id # res'.actor /\ res'.id \in DOMAIN profile)
                => /\ res'.status = 200
                   /\ DOMAIN profile' = DOMAIN profile
                   /\ profile'[res'.id] = [profile[res'.id] EXCEPT !.role = "USER"]
                   /\ \A o \in DOMAIN profile \ {res'.id} : profile'[o] = profile[o] ]_vars

\* an ADMIN has demoted another account that had been promoted and had
\* logged in as ADMIN, and is still ADMIN itself
C13_Witness ==
  /\ res.route = "demote" /\ res.role = "ADMIN" /\ res.status = 200
  /\ res.id # res.actor
  /\ [id |-> res.id, role |-> "ADMIN"] \in tokens
  /\ profile[res.id].role = "USER"
  /\ profile[res.actor].role = "ADMIN"

\* C14: a step that changes the role of an account is a promote or demote
\* request of an actor whose stored role is ADMIN at that moment, on an
\* account other than the actor's own.
C14_RolesChangeByAdminOnOther ==
  [][ (\E id \in DOMAIN profile : profile'[id].role # profile[id].role)
        => /\ res'.route \in {"promote", "demote"}
           /\ res'.actor \in DOMAIN profile
           /\ profile[res'.actor].role = "ADMIN"
           /\ res'.id # res'.actor ]_vars

\* a resource has the category: a post or a training
Referenced(id) ==
  \E kind \in {posts, training} : \E r \in DOMAIN kind : kind[r].categoryId = id

\* C15: a delete request of an ADMIN on a category that a post or a training
\* references is rejected and changes neither the categories nor the
\* resources; on an existing category that nothing references it removes
\* that category, and only that one.
C15_DeleteCategoryGuard ==
  [][ (res'.route = "deleteCategories" /\ res'.role = "ADMIN" /\ res'.id \in DOMAIN category)
        => IF Referenced(res'.id)
             THEN /\ res'.status \in 400..499
                  /\ category' = category /\ posts' = posts /\ training' = training
             ELSE /\ res'.status = 200
                  /\ category' = [c \in DOMAIN category \ {res'.id} |-> category[c]]
                  /\ posts' = posts /\ training' = training ]_vars

\* an ADMIN was refused the deletion of a category that a resource references
C15_Witness ==
  /\ res.route = "deleteCategories" /\ res.role = "ADMIN"
  /\ res.status = 400
  /\ CategoryExists(res.id) /\ Referenced(res.id)

\* C16: the three conflicts are answered 409: an ADMIN's create request whose
\* name is taken, an ADMIN's delete request on a category in use, and an
\* ADMIN's demote request on its own account.
C16_ConflictIs409 ==
  /\ (res.route = "postCategories" /\ res.role = "ADMIN" /\ res.status # 201
        /\ trim(res.name) # <<>>
        /\ \E c \in DOMAIN category : toLowerCase(category[c].name) = toLowerCase(trim(res.name)))
       => res.status = 409
  /\ (res.route = "deleteCategories" /\ res.role = "ADMIN"
        /\ CategoryExists(res.id) /\ Referenced(res.id))
       => res.status = 409
  /\ (res.route = "demote" /\ res.role = "ADMIN" /\ res.id = res.actor)
       => res.status = 409

\* the name as the claim compares it: trimmed, in lower case
NameKey(name) == toLowerCase(trim(name))

C18_ListingFollowsCheck ==
  /\ (res.route = "listPosts" /\ res.status = 200)
       => res.list = {p \in DOMAIN posts :
                        /\ checkPostAccess("GET", p, res.actor, res.role) = "next"
                        /\ res.query # "undefined" => posts[p].categoryId = asNumber(res.query)}
  /\ (res.route = "listTrainings" /\ res.status = 200)
       => res.list = {t \in DOMAIN training :
                        /\ checkTrainingAccess("GET", t, res.actor, res.role) = "next"
                        /\ res.query # "undefined" => training[t].categoryId = asNumber(res.query)}
  /\ (res.route \in {"listPosts", "listTrainings"} /\ res.status # 200) => res.list = {}

\* a USER that has a row without canView on the private post 1 of another
\* account has listed the posts and has not been shown the post
C18_Witness ==
  /\ res.route = "listPosts" /\ res.status = 200 /\ res.role = "USER"
  /\ \E p \in DOMAIN posts :
       /\ ~posts[p].isPublic /\ posts[p].ownerId # res.actor
       /\ \E s \in PostSharedWith(p, res.actor) : ~s.canView /\ s.canDelete
       /\ p \notin res.list

RemoveShareRoutes == {"removePostShare", "removeTrainingShare"}

\* the sharedAccess rows of a resource of the kind of a route
RowsOn(kind, id) ==
  {s \in sharedAccess : IF kind = "post" THEN s.postId = id ELSE s.trainingId = id}

\* C19: an authenticated remove-share request on an existing resource gets
\* through the access check exactly when the actor is ADMIN, or the owner, or
\* holds a row with canDelete = true on the resource while it is private; it
\* then removes the rows of the pair (resource, :userId), those of the actor
\* or of anyone else, and nothing more. Every other actor is answered 403 and
\* the table is left as it was.
C19_RemoveShareIsDeleteClass ==
  [][ (res'.route \in RemoveShareRoutes /\ res'.role # "NONE" /\ res'.existed)
        => LET allowed ==
                 \/ res'.role = "ADMIN"
                 \/ res'.actor = res'.ownerId
                 \/ /\ ~res'.wasPublic
                    /\ \E g \in RowsOn(res'.kind, res'.id) : g.userId = res'.actor /\ g.canDelete
           IN IF allowed
                THEN /\ res'.check = "next"
                     /\ res'.status = 200
                          => sharedAccess' = sharedAccess \
                               {g \in RowsOn(res'.kind, res'.id) : g.userId = res'.target}
                     /\ res'.status # 200 => sharedAccess' = sharedAccess
                ELSE /\ res'.check = "403" /\ res'.status = 403
                     /\ sharedAccess' = sharedAccess ]_vars

\* a USER that is not the owner and holds a delete-only row on a private
\* resource has removed the row of another account
C19_Witness ==
  /\ res.route \in RemoveShareRoutes /\ res.role = "USER" /\ res.status = 200
  /\ res.existed /\ ~res.wasPublic /\ res.actor # res.ownerId
  /\ \E g \in res.grant : g.canDelete /\ ~g.canView /\ ~g.canEdit
  /\ res.target # res.actor /\ res.prev # {}
  /\ RowsOf(res.kind, res.id, res.target) = {}
  /\ RowsOf(res.kind, res.id, res.actor) # {}

CategoryWriteRoutes == {"postCategories", "deleteCategories"}

\* C20: a create or delete request on the categories without a valid token is
\* answered 401, one with a token whose role is not ADMIN 403, and neither
\* changes the categories; a step of the app that changes them is a request
\* with role ADMIN. The listing answers 200 with all the categories whatever
\* the request carries, no token included.
C20_CategoryRoutesGuarded ==
  [][ /\ (res'.route \in CategoryWriteRoutes /\ res'.role = "NONE")
           => (res'.status = 401 /\ category' = category)
      /\ (res'.route \in CategoryWriteRoutes /\ res'.role \notin {"NONE", "ADMIN"})
           => (res'.status = 403 /\ category' = category)
      /\ (category' # category /\ res'.route # "createCategory")
           => (res'.route \in CategoryWriteRoutes /\ res'.role = "ADMIN")
      /\ res'.route = "getCategories"
           => (res'.status = 200 /\ res'.list = DOMAIN category /\ category' = category) ]_vars

\* a logged-in USER was refused the creation of a category whose name is free
C20_Witness ==
  /\ res.route = "postCategories" /\ res.role = "USER" /\ res.status = 403
  /\ [id |-> res.actor, role |-> "USER"] \in tokens
  /\ trim(res.name) # <<>>
  /\ ~\E c \in DOMAIN category : NameKey(category[c].name) = NameKey(res.name)

\* the flags of the rows an account holds on a resource
FlagsHeld(kind, id, userId) ==
  {<<s.canView, s.canEdit, s.canDelete>> : s \in RowsOf(kind, id, userId)}

\* post id and training id look the same to account userId: both absent, or
\* both present with the same visibility, the same answer to "is userId the
\* owner" and rows of userId with the same flags
SameResourceState(id, userId) ==
  /\ (id \in DOMAIN posts) = (id \in DOMAIN training)
  /\ id \in DOMAIN posts
       => /\ posts[id].isPublic = training[id].isPublic
          /\ (posts[id].ownerId = userId) = (training[id].ownerId = userId)
          /\ FlagsHeld("post", id, userId) = FlagsHeld("training", id, userId)

\* C21: for every method, :id, account and role, the post check and the
\* training check give the same outcome (next, 403, 404 or 500) when the post
\* and the training of that id are in the same state for that account; and a
\* request that either check has just refused would have been refused the same
\* way by the other one.
C21_ChecksAgree ==
  /\ \A m \in Methods, id \in AnyId, u \in DOMAIN profile, role \in {"USER", "ADMIN"} :
       (id = NaN \/ SameResourceState(id, u))
         => checkPostAccess(m, id, u, role) = checkTrainingAccess(m, id, u, role)
  /\ (Checked /\ res.check # "next" /\ (res.id = NaN \/ SameResourceState(res.id, res.actor)))
       => /\ res.check = checkPostAccess(res.method, res.id, res.actor, res.role)
          /\ res.check = checkTrainingAccess(res.method, res.id, res.actor, res.role)

\* a grantee holding a view-only row on private post 1 and on private training
\* 1, owner of neither, was refused the deletion of the post
C21_Witness ==
  /\ res.route = "deletePost" /\ res.check = "403" /\ res.role = "USER"
  /\ PostExists(res.id) /\ TrainingExists(res.id)
  /\ SameResourceState(res.id, res.actor)
  /\ ~posts[res.id].isPublic /\ posts[res.id].ownerId # res.actor
  /\ FlagsHeld("post", res.id, res.actor) = {<<TRUE, FALSE, FALSE>>}

\* the accounts that hold an email
AccountsOf(email) == {id \in DOMAIN profile : profile[id].email = email}

\* C22: a signup whose email no account holds answers 201 and adds exactly one
\* account, with that email and role USER, whatever the role field of the body;
\* a signup whose email is held answers 400 and leaves the accounts as they
\* were; and no two accounts ever hold the same email.
C22_SignupCreatesUser ==
  [][ /\ res'.route = "signup"
           => /\ AccountsOf(res'.body.email) = {}
                   => /\ res'.status = 201
                      /\ \E id \in DOMAIN profile' \ DOMAIN profile :
                           /\ DOMAIN profile' = DOMAIN profile \cup {id}
                           /\ profile'[id].email = res'.body.email
                           /\ profile'[id].role = "USER"
                      /\ \A o \in DOMAIN profile : profile'[o] = profile[o]
              /\ AccountsOf(res'.body.email) # {}
                   => (res'.status = 400 /\ profile' = profile)
      /\ \A a, b \in DOMAIN profile' :
           profile'[a].email = profile'[b].email => a = b ]_vars

\* a signup that asked for role ADMIN has created an account, and the account
\* is a USER
C22_Witness ==
  /\ res.route = "signup" /\ res.status = 201 /\ res.body.role = "ADMIN"
  /\ \E id \in AccountsOf(res.body.email) :
       id = nextProfileId - 1 /\ profile[id].role = "USER"

\* C23: a row that appears in posts or training is the row of a creation
\* request just answered 201, carries a fresh id and is owned by the account of
\* the token of that request; and every row present before and after a step
\* (a visibility update, a share, a removed share, a promotion or demotion, a
\* deleted category, another creation or deletion) keeps its ownerId.
C23_OwnerFixedAtCreation ==
  [][ /\ \A id \in DOMAIN posts' \ DOMAIN posts :
           /\ res'.route = "createPost" /\ res'.status = 201
           /\ id = nextPostId /\ nextPostId' > id
           /\ [id |-> res'.actor, role |-> res'.role] \in tokens
           /\ posts'[id].ownerId = res'.actor
      /\ \A id \in DOMAIN training' \ DOMAIN training :
           /\ res'.route = "createTraining" /\ res'.status = 201
           /\ id = nextTrainingId /\ nextTrainingId' > id
           /\ [id |-> res'.actor, role |-> res'.role] \in tokens
           /\ training'[id].ownerId = res'.actor
      /\ \A id \in DOMAIN posts \cap DOMAIN posts' : posts'[id].ownerId = posts[id].ownerId
      /\ \A id \in DOMAIN training \cap DOMAIN training' :
           training'[id].ownerId = training[id].ownerId ]_vars

\* an ADMIN that does not own the post has changed its visibility, and the
\* post still belongs to the account that created it
C23_Witness ==
  /\ res.route = "postVisibility" /\ res.status = 200
  /\ res.existed /\ res.ownerId = 2 /\ res.actor = 1
  /\ PostExists(res.id) /\ posts[res.id].ownerId = 2
  /\ posts[res.id].isPublic # res.wasPublic

\* the outcomes with which the access check answers the request itself
Refusals == {"403", "404", "500"}

\* C24: a request that the access check refuses (403, 404 or 500) is answered
\* with that status and leaves accounts, tokens, posts, trainings, sharedAccess
\* rows and categories exactly as they were; so does a request that the check
\* lets through to a handler that only reads (the download and image routes).
C24_CheckLeavesStore ==
  [][ (res'.route \in GuardedRoutes /\ res'.role # "NONE")
        => /\ res'.check \in Refusals \cup {"next"}
           /\ res'.check \in Refusals
                => /\ res'.status \in {403, 404, 500}
                   /\ store' = store
           /\ (res'.check = "next" /\ res'.method = "GET") => store' = store ]_vars

\* an account that holds a delete-only row on a public post of another account
\* was refused its deletion: the post, still public, and the row are there
C24_Witness ==
  /\ res.route = "deletePost" /\ res.check = "403" /\ res.status = 403
  /\ res.wasPublic /\ res.ownerId # res.actor
  /\ \E g \in res.grant : g.canDelete
  /\ PostExists(res.id) /\ posts[res.id].isPublic
  /\ res.grant = PostSharedWith(res.id, res.actor)

\* C25: whatever logins, promote and demote requests have been served, each
\* with the role its token carries, some account has role ADMIN.
C25_AlwaysAnAdmin == \E id \in DOMAIN profile : profile[id].role = "ADMIN"

\* the routes behind isAdmin among the role routes
AdminOnlyRoutes == {"promote", "demote"}

\* C26: a promote or demote request of an account whose stored role is USER at
\* that moment (never promoted, or demoted since) is refused with 403 and
\* changes no account, whenever its token was issued.
C26_DemotedActsAsUser ==
  [][ (/\ res'.route \in AdminOnlyRoutes
       /\ res'.actor \in DOMAIN profile
       /\ profile[res'.actor].role = "USER")
        => (res'.status = 403 /\ profile' = profile) ]_vars

\* the rows of the pair (post, account), in the table given
PairRows(table, postId, userId) == {s \in table : s.postId = postId /\ s.userId = userId}

\* C27: a remove-share request answered 200 leaves no row for its pair and
\* leaves the table as it was when the pair had none; from then on a READ,
\* UPDATE or DELETE request of that account on the post, while the post is
\* private and the account is neither its owner nor ADMIN, is answered 403 and
\* changes nothing, for as long as the pair has no row; and only a share
\* request answered 201 for the pair gives it a row again.
C27_RevokedIsDenied ==
  [][ /\ (res'.route = "removePostShare" /\ res'.status = 200)
           => /\ PairRows(sharedAccess', res'.id, res'.target) = {}
              /\ sharedAccess' = sharedAccess \ PairRows(sharedAccess, res'.id, res'.target)
              /\ PairRows(sharedAccess, res'.id, res'.target) = {} => sharedAccess' = sharedAccess
      /\ (/\ res'.route \in GuardedRoutes /\ res'.kind = "post" /\ res'.method \in VerbMethods
          /\ res'.role = "USER" /\ res'.existed /\ ~res'.wasPublic
          /\ res'.ownerId # res'.actor
          /\ PairRows(sharedAccess, res'.id, res'.actor) = {})
           => /\ res'.check = "403" /\ res'.status = 403
              /\ <<profile, posts, training, sharedAccess, category>>'
                   = <<profile, posts, training, sharedAccess, category>>
      /\ \A id \in DOMAIN posts, u \in DOMAIN profile :
           (PairRows(sharedAccess, id, u) = {} /\ PairRows(sharedAccess', id, u) # {})
             => (res'.route = "sharePost" /\ res'.status = 201
                 /\ res'.id = id /\ res'.target = u) ]_vars

\* a share request answered 201 gave account 2 a row on private post 1; the
\* row is gone, the post is still there and private, and account 2, a USER
\* that does not own it, has just been refused its download
C27_Witness ==
  /\ res.route = "getPostFile" /\ res.role = "USER" /\ res.status = 403
  /\ PostExists(res.id) /\ ~posts[res.id].isPublic /\ posts[res.id].ownerId # res.actor
  /\ PairRows(sharedAccess, res.id, res.actor) = {}
  /\ \E r \in DOMAIN inflight :
       /\ inflight[r].route = "sharePost" /\ inflight[r].status = 201
       /\ inflight[r].id = res.id /\ inflight[r].target = res.actor

MeansPublic(v) == v \in {"b:true", "s:true"}

\* C30: a resource just created (201) or whose visibility was just updated
\* (200) is public exactly when the isPublic received was true or 'true', so
\* that false and 'false' leave it private on both routes; a visibility update
\* without isPublic is answered 400 and changes no resource.
C30_IsPublicReadAlike ==
  [][ /\ (res'.route = "createPost" /\ res'.status = 201)
           => posts'[res'.id].isPublic = MeansPublic(res'.isPublicIn)
      /\ (res'.route = "createTraining" /\ res'.status = 201)
           => training'[res'.id].isPublic = MeansPublic(res'.isPublicIn)
      /\ (res'.route = "postVisibility" /\ res'.status = 200)
           => posts'[res'.id].isPublic = MeansPublic(res'.isPublicIn)
      /\ (res'.route = "trainingVisibility" /\ res'.status = 200)
           => training'[res'.id].isPublic = MeansPublic(res'.isPublicIn)
      /\ (res'.route \in VisibilityRoutes /\ res'.status = 400)
           => (posts' = posts /\ training' = training) ]_vars

====
